---- MODULE Spec2Model ----
(***************************************************************************)
(* Second-Brain: a local retrieval-augmented generation application.       *)
(* The module models, component by component, the chunker (lib/storage.ts, *)
(* chunkText), the embedding client (lib/ollama.ts, embedWithOllama), the  *)
(* ingestion coordinator (lib/ingest.ts, described by README.md and the    *)
(* design specification only), cosine and rankByCosine (lib/similarity.ts),*)
(* the context assembler (lib/rag.ts, described by the documentation       *)
(* only), the query route (POST /api/query), the streaming generation      *)
(* (described by the documentation only), the deletion of a conversation   *)
(* (DELETE /api/conversations/[id]) and the chat input bar                 *)
(* (components/chat/InputBar.tsx).                                         *)
(* Every component has its own variables and its own specification; the   *)
(* variables of the other components stay at their initial values.         *)
(***************************************************************************)
EXTENDS Integers, Sequences, FiniteSets, TLC

VARIABLES
    \* ---- chunkText (lib/storage.ts) ----
    chunkPc,      \* "idle" | "loop" | "done": position of the one chunkText call
    input,        \* parameter input
    chunkSize,    \* parameter chunkSize
    overlap,      \* parameter overlap
    text,         \* const text = input.trim()
    startIndex,   \* let startIndex
    chunkIndex,   \* let chunkIndex
    chunks,       \* const chunks: TextChunk[]
    slices,       \* history: (startIndex, endIndex, chunkText) of every loop iteration
    \* ---- embedWithOllama (lib/ollama.ts) ----
    embedPc,      \* "idle" | "loop" | "await" | "returned" | "thrown"
    texts,        \* parameter texts
    batchStart,   \* loop variable i
    allEmbeddings,\* const allEmbeddings
    requests,     \* history: the input array of every request sent to /api/embed
    embedError,   \* the error thrown ("none" while there is none)
    embedResult,  \* [has, value]: whether a value was returned, and the value
    \* ---- database (Document, Chunk, Embedding tables) ----
    documents,    \* ids of the Document rows
    docFragments, \* per document: the number of fragments its extracted text chunks into
    chunkRows,    \* Chunk rows [documentId, chunkIndex, by]; by: the inserting slot
    embeddingRows,\* Embedding rows [chunk, vector, createdAt]
    \* ---- ingest(documentId), one record of locals per request slot ----
    ingPc,        \* "idle" | a stage of IngestOrder | "await" | "done"
    ingArg,       \* the documentId of the request (0: not a valid id)
    ingStatus,    \* the HTTP status answered (0 while there is none)
    ingCreated,   \* the Chunk rows this call inserted
    ingBatch,     \* start of the next embedding batch
    ingVectors,   \* the vectors received so far
    ingRequests,  \* history: number of embedding requests this call sent
    ingExtracted, \* history: whether this call ran the text extraction
    ingSnapshot,  \* history: the tables when the request arrived
    ingWasOk,     \* history: whether an earlier ingest of the document answered 200
    \* ---- full-text index over Chunk.text (chunk_fts) ----
    ftsAvailable, \* whether the index can be queried
    ftsHits,      \* the chunks it returns for the question, best match first
    \* ---- POST /api/query, the one request ----
    queryPc,      \* "idle" | "count" | "embed" | "await" | "fetch" | "rank" |
                  \* "context" | "prompt" | "generate" | "llm" | "done"
    question,     \* body.question: [type, number, chars]
    queryStatus,  \* the HTTP status answered (0 while there is none)
    queryVector,  \* [has, value]: questionEmbeddings[0]
    embeddings,   \* result of prisma.embedding.findMany
    vectorRows,   \* the array handed to rankByCosine
    chosen,       \* the result of rankByCosine
    context,      \* buildContext(...).context
    sources,      \* buildContext(...).sources
    prompt,       \* [has, value]: the prompt, once built
    answer,       \* [has, value]: the generated answer, once received
    llmCalls,     \* history: number of calls of generateWithOllama
    genState,     \* the state of the generation: "Idle" | "Prompting" |
                  \* "Streaming" | "Completed" | "Cancelled" | "Failed"
    response,     \* sources and used.k of the 200 response; the error of another
    llmPromise,   \* the promise of generateWithOllama: "unstarted" | "pending" |
                  \* the outcome it settled with
    timer,        \* the 90-second timer: "unset" | "armed" | "expired"
    embedCalls,   \* history: number of calls of embedWithOllama
    dbReads,      \* history: number of prisma reads
    \* ---- cosine(a, b) (lib/similarity.ts), the one call ----
    cosPc,        \* "idle" | "returned"
    cosA,         \* parameter a
    cosB,         \* parameter b
    cosOut,       \* the value returned
    \* ---- rankByCosine(query, vectors, topK) (lib/similarity.ts), the one call ----
    rankPc,       \* "idle" | "scored" | "returned"
    query,        \* parameter query
    vectors,      \* parameter vectors, the caller's array
    vectorsArg,   \* history: the caller's array as it was when the call began
    topK,         \* parameter topK
    results,      \* const results, after the scoring loop
    rankOut,      \* the value returned
    \* ---- buildContext(fragments, maxChars) between its two route steps ----
    ctxPc,        \* "idle" | "built" | "cited"
    ranked,       \* the chosen candidates, in rank order
    maxChars,     \* parameter maxChars
    built,        \* the state buildContext ends in; it returns context and sources
    cited,        \* sourcesWithDocId
    \* ---- the streaming generation, the one request ----
    streamState,  \* "Idle" | "Prompting" | "Streaming" | "Completed" |
                  \* "Cancelled" | "Failed"
    pending,      \* the increments the language model has yet to deliver
    accumulated,  \* the answer text accumulated so far
    cancelSignal, \* whether the cancellation has been requested
    persisted,    \* [has, value]: the answer persisted as final
    streamError,  \* the error of a failed generation ("none" while there is none)
    \* ---- what no modelled operation writes ----
    envTopK,      \* process.env.TOP_K, parsed
    envUploadDir, \* process.env.UPLOAD_DIR || './uploads'
    docFilename,  \* per document: Document.filename, written by the upload
    docPath,      \* per document: Document.originalPath, written by the upload
    \* ---- conversations and the disk ----
    conversations,\* ids of the Conversation rows
    docConversation, \* per document: Document.conversationId (0: NULL)
    files,        \* the absolute paths of the files on disk
    \* ---- DELETE /api/conversations/[id], the one handler ----
    delPc,        \* "idle" | "find" | "conversation" | "embeddings" | "chunks" |
                  \* "documents" | "files" | "done"
    delArg,       \* conversationId
    documentIds,  \* const documentIds
    filePaths,    \* const filePaths
    fileIndex,    \* position of the loop over filePaths
    filesRemoved, \* let filesRemoved
    delStatus,    \* the HTTP status answered (0 while there is none)
    delBelonged,  \* history: the documents of the conversation when the request arrived
    unlinked,     \* history: the absolute paths this request has unlinked
    \* ---- the chat input bar (components/chat/InputBar.tsx) ----
    conversationId,       \* prop conversationId (0: null)
    onEnsureConversation, \* whether the prop onEnsureConversation is given
    disabled,     \* prop disabled
    barInput,     \* state input
    isUploading,  \* state isUploading
    pendingAttachments, \* state pendingAttachments
    upPc,         \* per uploadFiles call: "idle" | "ensure" | "fetch" | "returned"
    upFiles,      \* per call: parameter files
    selected,     \* per call: const selected
    fileIdx,      \* per call: position of the loop over selected
    newAttachments, \* per call: const newAttachments
    timers,       \* per call: its auto-send timer, "unset" | "armed" | "fired"
    fetched,      \* history, per call: the files sent to /api/upload, in order
    sent          \* history: the calls of onSend, in order

chunkVars == <<chunkPc, input, chunkSize, overlap, text, startIndex, chunkIndex,
               chunks, slices>>

embedVars == <<embedPc, texts, batchStart, allEmbeddings, requests, embedError,
               embedResult>>

dbVars == <<documents, docFragments, chunkRows, embeddingRows>>

ingestVars == <<ingPc, ingArg, ingStatus, ingCreated, ingBatch, ingVectors,
                ingRequests, ingExtracted, ingSnapshot, ingWasOk>>

ftsVars == <<ftsAvailable, ftsHits>>

\* what the request handler itself holds and has answered
routeVars == <<queryPc, question, queryStatus, queryVector, embeddings, vectorRows,
               chosen, context, sources, prompt, answer, llmCalls, genState,
               response, embedCalls, dbReads>>

queryVars == <<routeVars, llmPromise, timer>>

simVars == <<cosPc, cosA, cosB, cosOut, rankPc, query, vectors, vectorsArg, topK,
             results, rankOut>>

ctxVars == <<ctxPc, ranked, maxChars, built, cited>>

streamVars == <<streamState, pending, accumulated, cancelSignal, persisted,
                streamError>>

envVars == <<envTopK, envUploadDir>>

docColumns == <<docFilename, docPath>>

fixedVars == <<envVars, docColumns>>

deleteVars == <<conversations, docConversation, files, delPc, delArg, documentIds,
                filePaths, fileIndex, filesRemoved, delStatus, delBelonged,
                unlinked>>

barProps == <<conversationId, onEnsureConversation>>

uploadVars == <<upPc, upFiles, selected, fileIdx, newAttachments, timers, fetched>>

barVars == <<barProps, disabled, barInput, isUploading, pendingAttachments,
             uploadVars, sent>>

vars == <<chunkVars, embedVars, dbVars, ingestVars, ftsVars, queryVars, simVars,
          ctxVars, streamVars,
          fixedVars,
          deleteVars,
          barVars>>

----------------------------------------------------------------------------
(* Arithmetic helpers *)

Min(a, b) == IF a <= b THEN a ELSE b

Max(a, b) == IF a >= b THEN a ELSE b

\* ceil(a / b) for a >= 0, b > 0
CeilDiv(a, b) == (a + b - 1) \div b

----------------------------------------------------------------------------
(* Strings are sequences of characters; " " stands for every whitespace    *)
(* character that String.prototype.trim removes.                           *)

Ws == " "

Chars == {"a", Ws}

\* Longest generated input text.
MaxLen == 5

\* Largest generated chunkSize (overlap ranges over -1 .. MaxChunk + 1).
MaxChunk == 3

\* Cap on loop iterations followed by the model for a configuration on which
\* the loop of chunkText does not end by itself.
MaxSteps == 8

Texts == UNION {[1..n -> Chars] : n \in 0..MaxLen}

\* The worked example of the design: 2000 characters with the default chunkSize
\* 1500 and the default overlap 200 (and with overlap 1500, an invalid one).
DefaultChunkSize == 1500

DefaultOverlap == 200

ExampleText == [i \in 1..2000 |-> "a"]

\* String.prototype.trim: drop leading and trailing whitespace.
TrimLo(s) ==
    CHOOSE i \in 1..(Len(s) + 1) :
        /\ (i = Len(s) + 1 \/ s[i] # Ws)
        /\ \A j \in 1..(i - 1) : s[j] = Ws

TrimHi(s) ==
    CHOOSE i \in 0..Len(s) :
        /\ (i = 0 \/ s[i] # Ws)
        /\ \A j \in (i + 1)..Len(s) : s[j] = Ws

Trim(s) == IF TrimLo(s) > Len(s) THEN <<>> ELSE SubSeq(s, TrimLo(s), TrimHi(s))

\* String.prototype.substring(a, b), 0-based, end exclusive: both arguments are
\* clamped to [0, length] and swapped when a > b.
Clamp(i, n) == Max(0, Min(i, n))

Substring(s, a, b) ==
    SubSeq(s, Min(Clamp(a, Len(s)), Clamp(b, Len(s))) + 1,
              Max(Clamp(a, Len(s)), Clamp(b, Len(s))))

----------------------------------------------------------------------------
(* chunkText, one loop iteration per step *)

\* const endIndex = Math.min(startIndex + chunkSize, text.length)
EndIndexNoMin(start, size, len) == start + size

EndIndex(start, size, len) == Min(start + size, len)

\* startIndex += chunkSize - overlap
NextStartShort(start, size, ov) == start + size - ov - 1

NextStart(start, size, ov) == start + size - ov

\* chunkIndex++ inside if (chunkText)
NextChunkIndexAlways(idx, emitted) == idx + 1

NextChunkIndex(idx, emitted) == IF emitted THEN idx + 1 ELSE idx

\* The generated calls: small texts with every small configuration, and the
\* example text with the two configurations the design names.
ChunkCalls ==
    {<<t, s, o>> : t \in Texts, s \in 1..MaxChunk, o \in (0 - 1)..(MaxChunk + 1)}
    \cup {<<ExampleText, DefaultChunkSize, DefaultOverlap>>,
          <<ExampleText, DefaultChunkSize, DefaultChunkSize>>}

InitChunk ==
    /\ chunkPc = "idle"
    /\ input = <<>>
    /\ chunkSize = 1
    /\ overlap = 0
    /\ text = <<>>
    /\ startIndex = 0
    /\ chunkIndex = 0
    /\ chunks = <<>>
    /\ slices = <<>>

\* Entry of chunkText up to the first evaluation of the loop condition.
ChunkCall ==
    /\ chunkPc = "idle"
    /\ \E c \in ChunkCalls :
        /\ input' = c[1]
        /\ chunkSize' = c[2]
        /\ overlap' = c[3]
        /\ text' = Trim(c[1])
        /\ chunkPc' = IF Trim(c[1]) = <<>> THEN "done" ELSE "loop"
    /\ startIndex' = 0
    /\ chunkIndex' = 0
    /\ chunks' = <<>>
    /\ slices' = <<>>
    /\ UNCHANGED <<embedVars, dbVars, ingestVars, ftsVars, fixedVars, barVars,
                   deleteVars, simVars, ctxVars, streamVars, queryVars>>

\* One iteration of while (startIndex < text.length).
ChunkStep ==
    /\ chunkPc = "loop"
    /\ startIndex < Len(text)
    /\ Len(slices) < MaxSteps
    /\ LET endIndex == EndIndex(startIndex, chunkSize, Len(text))
           chunkTxt == Trim(Substring(text, startIndex, endIndex))
           emitted == chunkTxt # <<>>
       IN  /\ slices' = Append(slices, [from |-> startIndex, to |-> endIndex,
                                        frag |-> chunkTxt])
           /\ chunks' = IF emitted
                        THEN Append(chunks, [index |-> chunkIndex, text |-> chunkTxt,
                                             tokenCount |-> Len(chunkTxt)])
                        ELSE chunks
           /\ chunkIndex' = NextChunkIndex(chunkIndex, emitted)
           /\ IF endIndex = Len(text)
              THEN /\ chunkPc' = "done"
                   /\ startIndex' = startIndex
              ELSE /\ chunkPc' = "loop"
                   /\ startIndex' = NextStart(startIndex, chunkSize, overlap)
    /\ UNCHANGED <<input, chunkSize, overlap, text>>
    /\ UNCHANGED <<embedVars, dbVars, ingestVars, ftsVars, fixedVars, barVars,
                   deleteVars, simVars, ctxVars, streamVars, queryVars>>

\* The loop condition fails: return chunks.
ChunkExit ==
    /\ chunkPc = "loop"
    /\ startIndex >= Len(text)
    /\ chunkPc' = "done"
    /\ UNCHANGED <<input, chunkSize, overlap, text, startIndex, chunkIndex, chunks,
                   slices>>
    /\ UNCHANGED <<embedVars, dbVars, ingestVars, ftsVars, fixedVars, barVars,
                   deleteVars, simVars, ctxVars, streamVars, queryVars>>

----------------------------------------------------------------------------
(* embedWithOllama, one request or one response per step *)

BATCH_SIZE == 64

\* Longest generated texts array: three batches.
MaxTexts == 130

\* The embedding the provider computes for text t.  Texts are numbered: k > 0
\* is the k-th text of a call, 0 the question of a query, -1 no text at all.
Vec(t) == [of |-> t]

\* What one POST /api/embed can end in:
\*   ok        200, one vector per input text, in input order
\*   short     200, the last vector missing
\*   long      200, one vector too many
\*   noarray   200, no embeddings array in the body
\*   http404   status 404
\*   httpModel another error status, the body mentions the model
\*   http500   another error status, any other body
\*   refused   fetch throws with code ECONNREFUSED (or the message says so)
\*   refusedCause  fetch throws with cause.code ECONNREFUSED
\*   neterr    fetch or response.json() throws anything else
ResponseKinds ==
    {"ok", "short", "long", "noarray", "http404", "httpModel", "http500",
     "refused", "refusedCause", "neterr"}

\* data.embeddings of a 200 response to the request with input batch.
ProviderVectors(kind, batch) ==
    LET full == [j \in 1..Len(batch) |-> Vec(batch[j])]
    IN  CASE kind = "ok" -> full
          [] kind = "short" -> SubSeq(full, 1, Len(full) - 1)
          [] kind = "long" -> Append(full, Vec(0 - 1))
          [] OTHER -> <<>>

\* The error embedWithOllama throws on a response, "none" when it goes on.
EmbedErrorOf(kind) ==
    CASE kind \in {"ok", "short", "long"} -> "none"
      [] kind = "noarray" -> "InvalidResponse"
      [] kind \in {"http404", "httpModel"} -> "ModelNotFound"
      [] kind = "http500" -> "ApiError"
      [] kind \in {"refused", "refusedCause"} -> "CannotConnect"
      [] OTHER -> "Other"

\* texts.slice(i, Math.min(i + BATCH_SIZE, texts.length)), i counted from 0
BatchOf(ts, i) == SubSeq(ts, i + 1, Min(i + BATCH_SIZE, Len(ts)))

NoResult == [has |-> FALSE, value |-> <<>>]

Returned(v) == [has |-> TRUE, value |-> v]

InitEmbed ==
    /\ embedPc = "idle"
    /\ texts = <<>>
    /\ batchStart = 0
    /\ allEmbeddings = <<>>
    /\ requests = <<>>
    /\ embedError = "none"
    /\ embedResult = NoResult

\* Entry: if (texts.length === 0) return []
EmbedCall ==
    /\ embedPc = "idle"
    /\ \E n \in 0..MaxTexts :
        /\ texts' = [k \in 1..n |-> k]
        /\ embedPc' = IF n = 0 THEN "returned" ELSE "loop"
        /\ embedResult' = IF n = 0 THEN Returned(<<>>) ELSE NoResult
    /\ batchStart' = 0
    /\ allEmbeddings' = <<>>
    /\ requests' = <<>>
    /\ embedError' = "none"
    /\ UNCHANGED <<chunkVars, dbVars, ingestVars, ftsVars, fixedVars, barVars,
                   deleteVars, simVars, ctxVars, streamVars, queryVars>>

\* Loop condition true: slice the batch and send it (await fetch).
EmbedSend ==
    /\ embedPc = "loop"
    /\ batchStart < Len(texts)
    /\ requests' = Append(requests, BatchOf(texts, batchStart))
    /\ embedPc' = "await"
    /\ UNCHANGED <<texts, batchStart, allEmbeddings, embedError, embedResult>>
    /\ UNCHANGED <<chunkVars, dbVars, ingestVars, ftsVars, fixedVars, barVars,
                   deleteVars, simVars, ctxVars, streamVars, queryVars>>

\* The response (or the failure) of the request in flight arrives.
EmbedRespond ==
    /\ embedPc = "await"
    /\ \E kind \in ResponseKinds :
        IF EmbedErrorOf(kind) = "none"
        THEN /\ allEmbeddings' =
                    allEmbeddings \o ProviderVectors(kind, requests[Len(requests)])
             /\ batchStart' = batchStart + BATCH_SIZE
             /\ embedPc' = "loop"
             /\ UNCHANGED embedError
        ELSE /\ embedError' = EmbedErrorOf(kind)
             /\ embedPc' = "thrown"
             /\ UNCHANGED <<allEmbeddings, batchStart>>
    /\ UNCHANGED <<texts, requests, embedResult>>
    /\ UNCHANGED <<chunkVars, dbVars, ingestVars, ftsVars, fixedVars, barVars,
                   deleteVars, simVars, ctxVars, streamVars, queryVars>>

\* Loop condition false: return allEmbeddings.
EmbedReturn ==
    /\ embedPc = "loop"
    /\ batchStart >= Len(texts)
    /\ embedResult' = Returned(allEmbeddings)
    /\ embedPc' = "returned"
    /\ UNCHANGED <<texts, batchStart, allEmbeddings, requests, embedError>>
    /\ UNCHANGED <<chunkVars, dbVars, ingestVars, ftsVars, fixedVars, barVars,
                   deleteVars, simVars, ctxVars, streamVars, queryVars>>

NextEmbed == EmbedCall \/ EmbedSend \/ EmbedRespond \/ EmbedReturn

----------------------------------------------------------------------------
(* The tables and the ingestion coordinator.  lib/ingest.ts and the          *)
(* /api/embed route are described by README.md (the order of the steps in   *)
(* the server log, the statuses) and by the design; the embedding call in   *)
(* it is embedWithOllama as modelled above.                                 *)

\* Documents uploaded before the first request.
MaxDocs == 2

\* Request slots (requests in flight at the same time).
MaxSlots == 2

Docs == 1..MaxDocs

Slots == 1..MaxSlots

\* Fragment counts of the generated documents: no extractable text, one
\* batch, more than one batch.
FragCounts == {0, 1, BATCH_SIZE + 1}

\* documentId values of the generated requests: 0 is not a valid id, and
\* MaxDocs + 1 is the id of no document.
IngestArgs == 0..(MaxDocs + 1)

\* The order in which a request goes through its steps.
IngestOrderExtractFirst == <<"validate", "lookup", "extract", "guard", "insert", "embed">>

IngestOrder == <<"validate", "lookup", "guard", "extract", "insert", "embed">>

After(stage) ==
    IngestOrder[1 + CHOOSE k \in 1..(Len(IngestOrder) - 1) : IngestOrder[k] = stage]

\* Duplicate-ingestion guard: the document already has Chunk rows.
AlreadyIngestedNever(tbl, d) == FALSE

AlreadyIngested(tbl, d) == \E r \in tbl : r.documentId = d

\* What is left of a table after the rows of an aborted run are removed.
RollbackNothing(tbl, created) == tbl

Rollback(tbl, created) == tbl \ created

\* The status answered for an error thrown by embedWithOllama.
StatusOfEmbedError(err) ==
    CASE err = "CannotConnect" -> 503
      [] err = "ModelNotFound" -> 404
      [] OTHER -> 500

InitDb ==
    /\ documents = Docs
    /\ docFragments \in [Docs -> FragCounts]
    /\ chunkRows = {}
    /\ embeddingRows = {}

InitIngest ==
    /\ ingPc = [c \in Slots |-> "idle"]
    /\ ingArg = [c \in Slots |-> 0]
    /\ ingStatus = [c \in Slots |-> 0]
    /\ ingCreated = [c \in Slots |-> {}]
    /\ ingBatch = [c \in Slots |-> 0]
    /\ ingVectors = [c \in Slots |-> <<>>]
    /\ ingRequests = [c \in Slots |-> 0]
    /\ ingExtracted = [c \in Slots |-> FALSE]
    /\ ingSnapshot = [c \in Slots |-> [chunks |-> {}, embeddings |-> {}]]
    /\ ingWasOk = [c \in Slots |-> FALSE]

\* The documents some ingest call has answered 200 for.
IngestedOk == {r.documentId : r \in {e.chunk : e \in embeddingRows}}

\* The call in slot c answers status and ends.
Finish(c, status) ==
    /\ ingPc' = [ingPc EXCEPT ![c] = "done"]
    /\ ingStatus' = [ingStatus EXCEPT ![c] = status]

\* The call in slot c goes on to the step after stage.
Advance(c, stage) ==
    /\ ingPc' = [ingPc EXCEPT ![c] = After(stage)]
    /\ UNCHANGED ingStatus

\* A request arrives in the free slot c.
IngestRequest(c) ==
    /\ ingPc[c] = "idle"
    /\ \E a \in IngestArgs :
        /\ ingArg' = [ingArg EXCEPT ![c] = a]
        /\ ingWasOk' = [ingWasOk EXCEPT ![c] = a \in IngestedOk]
    /\ ingPc' = [ingPc EXCEPT ![c] = IngestOrder[1]]
    /\ ingSnapshot' = [ingSnapshot EXCEPT
                         ![c] = [chunks |-> chunkRows, embeddings |-> embeddingRows]]
    /\ UNCHANGED <<ingStatus, ingCreated, ingBatch, ingVectors, ingRequests,
                   ingExtracted>>
    /\ UNCHANGED <<chunkVars, embedVars, dbVars, ftsVars, fixedVars, barVars,
                   deleteVars, simVars, ctxVars, streamVars, queryVars>>

\* invalid id -> 400
IngestValidate(c) ==
    /\ ingPc[c] = "validate"
    /\ IF ingArg[c] < 1 THEN Finish(c, 400) ELSE Advance(c, "validate")
    /\ UNCHANGED <<ingArg, ingCreated, ingBatch, ingVectors, ingRequests,
                   ingExtracted, ingSnapshot, ingWasOk>>
    /\ UNCHANGED <<chunkVars, embedVars, dbVars, ftsVars, fixedVars, barVars,
                   deleteVars, simVars, ctxVars, streamVars, queryVars>>

\* document does not exist -> 404
IngestLookup(c) ==
    /\ ingPc[c] = "lookup"
    /\ IF ingArg[c] \notin documents THEN Finish(c, 404) ELSE Advance(c, "lookup")
    /\ UNCHANGED <<ingArg, ingCreated, ingBatch, ingVectors, ingRequests,
                   ingExtracted, ingSnapshot, ingWasOk>>
    /\ UNCHANGED <<chunkVars, embedVars, dbVars, ftsVars, fixedVars, barVars,
                   deleteVars, simVars, ctxVars, streamVars, queryVars>>

\* document already ingested -> 409
IngestGuard(c) ==
    /\ ingPc[c] = "guard"
    /\ IF AlreadyIngested(chunkRows, ingArg[c])
       THEN Finish(c, 409)
       ELSE Advance(c, "guard")
    /\ UNCHANGED <<ingArg, ingCreated, ingBatch, ingVectors, ingRequests,
                   ingExtracted, ingSnapshot, ingWasOk>>
    /\ UNCHANGED <<chunkVars, embedVars, dbVars, ftsVars, fixedVars, barVars,
                   deleteVars, simVars, ctxVars, streamVars, queryVars>>

\* text extraction; no text -> 422
IngestExtract(c) ==
    /\ ingPc[c] = "extract"
    /\ ingExtracted' = [ingExtracted EXCEPT ![c] = TRUE]
    /\ IF docFragments[ingArg[c]] = 0 THEN Finish(c, 422) ELSE Advance(c, "extract")
    /\ UNCHANGED <<ingArg, ingCreated, ingBatch, ingVectors, ingRequests,
                   ingSnapshot, ingWasOk>>
    /\ UNCHANGED <<chunkVars, embedVars, dbVars, ftsVars, fixedVars, barVars,
                   deleteVars, simVars, ctxVars, streamVars, queryVars>>

\* "[Embed] Inserting XX chunks into database..."
IngestInsert(c) ==
    /\ ingPc[c] = "insert"
    /\ LET rows == {[documentId |-> ingArg[c], chunkIndex |-> k - 1, by |-> c] :
                        k \in 1..docFragments[ingArg[c]]}
       IN  /\ chunkRows' = chunkRows \cup rows
           /\ ingCreated' = [ingCreated EXCEPT ![c] = rows]
    /\ Advance(c, "insert")
    /\ UNCHANGED <<ingArg, ingBatch, ingVectors, ingRequests, ingExtracted,
                   ingSnapshot, ingWasOk>>
    /\ UNCHANGED <<chunkVars, embedVars, documents, docFragments, embeddingRows>>
    /\ UNCHANGED <<ftsVars, fixedVars, barVars, deleteVars, simVars, ctxVars,
                   streamVars, queryVars>>

\* The texts handed to embedWithOllama: text k is the text of chunk k - 1.
IngestTexts(c) == [k \in 1..Cardinality(ingCreated[c]) |-> k]

\* embedWithOllama: the next batch is sent.
IngestEmbedSend(c) ==
    /\ ingPc[c] = "embed"
    /\ ingBatch[c] < Len(IngestTexts(c))
    /\ ingRequests' = [ingRequests EXCEPT ![c] = @ + 1]
    /\ ingPc' = [ingPc EXCEPT ![c] = "await"]
    /\ UNCHANGED <<ingArg, ingStatus, ingCreated, ingBatch, ingVectors, ingExtracted,
                   ingSnapshot, ingWasOk>>
    /\ UNCHANGED <<chunkVars, embedVars, dbVars, ftsVars, fixedVars, barVars,
                   deleteVars, simVars, ctxVars, streamVars, queryVars>>

\* embedWithOllama: the response arrives; an error aborts the run.
IngestEmbedRespond(c) ==
    /\ ingPc[c] = "await"
    /\ \E kind \in ResponseKinds :
        IF EmbedErrorOf(kind) = "none"
        THEN /\ ingVectors' = [ingVectors EXCEPT ![c] =
                    @ \o ProviderVectors(kind, BatchOf(IngestTexts(c), ingBatch[c]))]
             /\ ingBatch' = [ingBatch EXCEPT ![c] = @ + BATCH_SIZE]
             /\ ingPc' = [ingPc EXCEPT ![c] = "embed"]
             /\ UNCHANGED <<ingStatus, chunkRows>>
        ELSE /\ chunkRows' = Rollback(chunkRows, ingCreated[c])
             /\ Finish(c, StatusOfEmbedError(EmbedErrorOf(kind)))
             /\ UNCHANGED <<ingVectors, ingBatch>>
    /\ UNCHANGED <<ingArg, ingCreated, ingRequests, ingExtracted, ingSnapshot,
                   ingWasOk>>
    /\ UNCHANGED <<chunkVars, embedVars, documents, docFragments, embeddingRows>>
    /\ UNCHANGED <<ftsVars, fixedVars, barVars, deleteVars, simVars, ctxVars,
                   streamVars, queryVars>>

\* embedWithOllama has returned: one Embedding row per Chunk row, or none.
IngestPersist(c) ==
    /\ ingPc[c] = "embed"
    /\ ingBatch[c] >= Len(IngestTexts(c))
    /\ IF Len(ingVectors[c]) = Cardinality(ingCreated[c])
       THEN /\ embeddingRows' = embeddingRows \cup
                    {[chunk |-> r, vector |-> ingVectors[c][r.chunkIndex + 1],
                      createdAt |-> Cardinality(embeddingRows) + r.chunkIndex + 1] :
                        r \in ingCreated[c]}
            /\ Finish(c, 200)
            /\ UNCHANGED chunkRows
       ELSE /\ chunkRows' = Rollback(chunkRows, ingCreated[c])
            /\ Finish(c, 500)
            /\ UNCHANGED embeddingRows
    /\ UNCHANGED <<ingArg, ingCreated, ingBatch, ingVectors, ingRequests,
                   ingExtracted, ingSnapshot, ingWasOk>>
    /\ UNCHANGED <<chunkVars, embedVars, documents, docFragments>>
    /\ UNCHANGED <<ftsVars, fixedVars, barVars, deleteVars, simVars, ctxVars,
                   streamVars, queryVars>>

\* The response was sent; the slot is free again.
IngestReturn(c) ==
    /\ ingPc[c] = "done"
    /\ ingPc' = [ingPc EXCEPT ![c] = "idle"]
    /\ ingArg' = [ingArg EXCEPT ![c] = 0]
    /\ ingStatus' = [ingStatus EXCEPT ![c] = 0]
    /\ ingCreated' = [ingCreated EXCEPT ![c] = {}]
    /\ ingBatch' = [ingBatch EXCEPT ![c] = 0]
    /\ ingVectors' = [ingVectors EXCEPT ![c] = <<>>]
    /\ ingRequests' = [ingRequests EXCEPT ![c] = 0]
    /\ ingExtracted' = [ingExtracted EXCEPT ![c] = FALSE]
    /\ ingSnapshot' = [ingSnapshot EXCEPT ![c] = [chunks |-> {}, embeddings |-> {}]]
    /\ ingWasOk' = [ingWasOk EXCEPT ![c] = FALSE]
    /\ UNCHANGED <<chunkVars, embedVars, dbVars, ftsVars, fixedVars, barVars,
                   deleteVars, simVars, ctxVars, streamVars, queryVars>>

\* One request after the other: a request arrives when no other is in flight.
IngestRequestAlone(c) ==
    /\ \A d \in Slots : ingPc[d] = "idle"
    /\ IngestRequest(c)

NextIngest ==
    \E c \in Slots :
        \/ IngestRequestAlone(c)
        \/ IngestValidate(c)
        \/ IngestLookup(c)
        \/ IngestGuard(c)
        \/ IngestExtract(c)
        \/ IngestInsert(c)
        \/ IngestEmbedSend(c)
        \/ IngestEmbedRespond(c)
        \/ IngestPersist(c)
        \/ IngestReturn(c)

----------------------------------------------------------------------------
(* cosine and rankByCosine (lib/similarity.ts).                             *)
(* Vectors are sequences of integers.  A similarity dot / (normA * normB)   *)
(* is kept exactly, as the sign of dot and the reduced fraction             *)
(* dot^2 / (normA^2 * normB^2); norms are kept squared (Math.sqrt(x) is 0   *)
(* exactly when x is 0 and is positive otherwise).  Floating-point rounding *)
(* is not modelled.                                                         *)

\* Largest vector dimension, and most candidates, of the generated calls.
MaxDim == 2

MaxCand == 2

Components == {0, 1}

Vectors == UNION {[1..d -> Components] : d \in 0..MaxDim}

RECURSIVE GCD(_, _)
GCD(a, b) == IF b = 0 THEN a ELSE GCD(b, a % b)

Sign(x) == IF x > 0 THEN 1 ELSE IF x < 0 THEN 0 - 1 ELSE 0

Zero == [s |-> 0, n |-> 0, d |-> 1]

\* dot / (normA * normB) for sqNorms = normA^2 * normB^2 > 0
Quotient(dot, sqNorms) ==
    IF dot = 0 THEN Zero
    ELSE LET g == GCD(dot * dot, sqNorms)
         IN  [s |-> Sign(dot), n |-> (dot * dot) \div g, d |-> sqNorms \div g]

\* x < y for two similarities
Less(x, y) ==
    IF x.s # y.s THEN x.s < y.s
    ELSE IF x.s = 1 THEN x.n * y.d < y.n * x.d
    ELSE IF x.s = 0 - 1 THEN x.n * y.d > y.n * x.d
    ELSE FALSE

\* sum of a[i] * b[i] for i < n (the loop of lines 28-32 and of 101-104)
RECURSIVE DotProduct(_, _, _)
DotProduct(a, b, n) ==
    IF n = 0 THEN 0 ELSE DotProduct(a, b, n - 1) + a[n] * b[n]

\* cosine as it would be without the length guard: the loop runs over the
\* shorter vector.
CosineOverPrefix(a, b) ==
    LET n == Min(Len(a), Len(b))
        normA == DotProduct(a, a, n)
        normB == DotProduct(b, b, n)
    IN  IF n = 0 \/ normA = 0 \/ normB = 0 THEN Zero
        ELSE Quotient(DotProduct(a, b, n), normA * normB)

cosine(a, b) ==
    IF Len(a) # Len(b) THEN Zero
    ELSE IF Len(a) = 0 THEN Zero
    ELSE LET normA == DotProduct(a, a, Len(a))
             normB == DotProduct(b, b, Len(b))
         IN  IF normA = 0 \/ normB = 0 THEN Zero
             ELSE Quotient(DotProduct(a, b, Len(a)), normA * normB)

\* The similarity rankByCosine computes for one item (lines 98-109).  When
\* the item's vector is shorter than the query, item.vector[j] is undefined
\* for some j, dotProduct and itemNorm are NaN, and itemNorm > 0 is false.
ItemSimilarity(q, v) ==
    LET queryNorm == DotProduct(q, q, Len(q))
        isNaN == Len(v) < Len(q)
        itemNorm == IF isNaN THEN 0 ELSE DotProduct(v, v, Len(q))
    IN  IF ~isNaN /\ itemNorm > 0 /\ queryNorm > 0
        THEN Quotient(DotProduct(q, v, Len(q)), queryNorm * itemNorm)
        ELSE Zero

\* {...item, similarity}
Scored(item, similarity) == [item |-> item, similarity |-> similarity]

\* The comparator of results.sort, (a, b) => b.similarity - a.similarity, by
\* its sign; the mutated one sorts ascending.
CompareAscending(a, b) ==
    IF Less(a.similarity, b.similarity) THEN 0 - 1
    ELSE IF Less(b.similarity, a.similarity) THEN 1 ELSE 0

Compare(a, b) ==
    IF Less(a.similarity, b.similarity) THEN 1
    ELSE IF Less(b.similarity, a.similarity) THEN 0 - 1 ELSE 0

\* Array.prototype.sort is stable: an element comes after the elements the
\* comparator puts before it and after the earlier elements it ties with.
SortedPosition(s, i) ==
    1 + Cardinality({j \in 1..Len(s) : Compare(s[j], s[i]) < 0})
      + Cardinality({j \in 1..(i - 1) : Compare(s[j], s[i]) = 0})

Sort(s) ==
    [p \in 1..Len(s) |-> s[CHOOSE i \in 1..Len(s) : SortedPosition(s, i) = p]]

\* Array.prototype.slice(begin, end): negative indices count from the end.
RelativeIndex(i, n) == IF i < 0 THEN Max(n + i, 0) ELSE Min(i, n)

Slice(s, begin, end) ==
    LET lo == RelativeIndex(begin, Len(s))
        hi == RelativeIndex(end, Len(s))
    IN  IF lo < hi THEN SubSeq(s, lo + 1, hi) ELSE <<>>

\* The scoring loop of rankByCosine (lines 85-115)
ScoreAll(q, vs) ==
    [k \in 1..Len(vs) |-> Scored(vs[k], ItemSimilarity(q, vs[k].vector))]

\* (each intermediate array is bound once: results, then results sorted)
rankByCosine(q, vs, k) ==
    IF Len(vs) = 0 THEN <<>>
    ELSE CHOOSE out \in {Slice(sorted, 0, k) :
                            sorted \in {Sort(scored) : scored \in {ScoreAll(q, vs)}}} :
                TRUE

\* The generated candidate lists: item number k of a list has id k.
Candidates ==
    UNION {{[k \in 1..n |-> [id |-> k, vector |-> f[k]]] : f \in [1..n -> Vectors]} :
                n \in 0..MaxCand}

\* Calls beyond the generated ones: similarities high, low, middle with
\* topK = 2; opposed vectors; a tie among four candidates.
ExampleRankCalls ==
    {<< <<3, 1>>, << <<3, 1>>, <<0, 1>>, <<1, 1>> >>, 2 >>,
     << <<1, 0>>, << <<0 - 1, 0>>, <<1, 0 - 1>>, <<1, 1>> >>, 3 >>,
     << <<1, 1>>, << <<1, 0>>, <<0, 1>>, <<0, 2>>, <<2, 0>> >>, 0 - 1 >>}

ItemsOf(vs) == [k \in 1..Len(vs) |-> [id |-> k, vector |-> vs[k]]]

RankCalls ==
    (Vectors \X Candidates \X ((0 - 1)..(MaxCand + 1)))
        \cup {<<c[1], ItemsOf(c[2]), c[3]>> : c \in ExampleRankCalls}

InitSimilarity ==
    /\ cosPc = "idle"
    /\ cosA = <<>>
    /\ cosB = <<>>
    /\ cosOut = Zero
    /\ rankPc = "idle"
    /\ query = <<>>
    /\ vectors = <<>>
    /\ vectorsArg = <<>>
    /\ topK = 0
    /\ results = <<>>
    /\ rankOut = <<>>

\* cosine(a, b) is called and returns.
CosineCall ==
    /\ cosPc = "idle"
    /\ rankPc = "idle"
    /\ \E a \in Vectors, b \in Vectors :
        /\ cosA' = a
        /\ cosB' = b
        /\ cosOut' = cosine(a, b)
    /\ cosPc' = "returned"
    /\ UNCHANGED <<rankPc, query, vectors, vectorsArg, topK, results, rankOut>>
    /\ UNCHANGED <<chunkVars, embedVars, dbVars, ingestVars, ftsVars, fixedVars,
                   barVars, deleteVars, queryVars, ctxVars, streamVars>>

\* rankByCosine is called and scores every item (lines 72-115).
RankCall ==
    /\ rankPc = "idle"
    /\ cosPc = "idle"
    /\ \E c \in RankCalls :
        /\ query' = c[1]
        /\ vectors' = c[2]
        /\ vectorsArg' = c[2]
        /\ topK' = c[3]
        /\ results' = ScoreAll(c[1], c[2])
    /\ rankPc' = "scored"
    /\ UNCHANGED <<cosPc, cosA, cosB, cosOut, rankOut>>
    /\ UNCHANGED <<chunkVars, embedVars, dbVars, ingestVars, ftsVars, fixedVars,
                   barVars, deleteVars, queryVars, ctxVars, streamVars>>

\* results.sort(...); return results.slice(0, topK) (lines 119-120; the
\* early return of line 73 gives the same empty array).
RankReturn ==
    /\ rankPc = "scored"
    /\ results' = Sort(results)
    /\ rankOut' = rankByCosine(query, vectors, topK)
    /\ rankPc' = "returned"
    /\ UNCHANGED <<cosPc, cosA, cosB, cosOut, query, vectors, vectorsArg, topK>>
    /\ UNCHANGED <<chunkVars, embedVars, dbVars, ingestVars, ftsVars, fixedVars,
                   barVars, deleteVars, queryVars, ctxVars, streamVars>>

NextSimilarity == CosineCall \/ RankCall \/ RankReturn

----------------------------------------------------------------------------
(* The context assembler, buildContext (lib/rag.ts), as the design          *)
(* specification and docs/PERFORMANCE_OPTIMIZATIONS.md describe it, between *)
(* the two pieces of the query route that surround it: the projection of    *)
(* the chosen candidates to {filename, chunkIndex, text} and the mapping of *)
(* the sources back to document ids.                                        *)

\* Most fragments in a generated ranked list, and the largest generated budget.
MaxRanked == 3

MaxBudget == 5

Filenames == {"a.pdf", "b.pdf"}

\* The text of fragment i of document d, n characters long; a character is
\* tagged with the fragment it belongs to.
FragmentText(d, i, n) == [j \in 1..n |-> <<d, i>>]

\* chosen.map((c) => ({filename, chunkIndex, text}))
ToFragment(c) ==
    [filename |-> c.item.filename, chunkIndex |-> c.item.chunkIndex,
     text |-> c.item.text]

ToFragments(cs) == [k \in 1..Len(cs) |-> ToFragment(cs[k])]

\* `${filename}#${chunkIndex}`
SourceKey(f) == <<f.filename, f.chunkIndex>>

\* whether a text of len characters still fits after total characters
FitsAlways(total, len, budget) == TRUE

Fits(total, len, budget) == total + len <= budget

\* whether the accumulation has ended: it ends with the first fragment that
\* does not fit
StoppedNever(stopped, fits) == FALSE

Stopped(stopped, fits) == stopped \/ ~fits

\* The state of buildContext after its first n fragments: the context, the
\* sources, the membership set, the number of fragments taken, whether the
\* accumulation has ended.
RECURSIVE ContextAfter(_, _, _)
ContextAfter(frags, budget, n) ==
    IF n = 0
    THEN [context |-> <<>>, sources |-> <<>>, seenSources |-> {}, taken |-> {},
          stopped |-> FALSE]
    ELSE LET prev == ContextAfter(frags, budget, n - 1)
             f == frags[n]
             fits == Fits(Len(prev.context), Len(f.text), budget)
         IN  IF Stopped(prev.stopped, fits) \/ ~fits
             THEN [prev EXCEPT !.stopped = Stopped(prev.stopped, fits)]
             ELSE [context |-> prev.context \o f.text,
                   sources |->
                        IF SourceKey(f) \in prev.seenSources THEN prev.sources
                        ELSE Append(prev.sources,
                                [filename |-> f.filename, chunkIndex |-> f.chunkIndex]),
                   seenSources |-> prev.seenSources \cup {SourceKey(f)},
                   taken |-> prev.taken \cup {n},
                   stopped |-> FALSE]

buildContext(frags, budget) == ContextAfter(frags, budget, Len(frags))

\* chosen.find((c) => c.filename === s.filename && c.chunkIndex === s.chunkIndex)
\* and matchedChunk?.docId || 0
MatchedDocId(cs, s) ==
    LET hits == {k \in 1..Len(cs) :
                    cs[k].item.filename = s.filename
                        /\ cs[k].item.chunkIndex = s.chunkIndex}
    IN  IF hits = {} THEN 0
        ELSE cs[CHOOSE k \in hits : \A j \in hits : k <= j].item.docId

SourcesWithDocId(srcs, cs) ==
    [k \in 1..Len(srcs) |->
        [documentId |-> MatchedDocId(cs, srcs[k]), filename |-> srcs[k].filename,
         chunkIndex |-> srcs[k].chunkIndex]]

\* A chosen candidate: fragment i of document d, stored under filename.
ChosenItem(d, name, i, n) ==
    Scored([id |-> <<d, i>>, vector |-> <<1>>, docId |-> d, chunkIndex |-> i,
            filename |-> name, text |-> FragmentText(d, i, n)], Zero)

\* The generated ranked lists: fragments 0 and 1 of documents 1 and 2, with
\* texts of 1 to 3 characters; two uploads can have been stored under the
\* same filename (same name, same millisecond).
RankedLists ==
    UNION {{[k \in 1..n |->
                ChosenItem(key[k][1], names[key[k][1]], key[k][2],
                           1 + ((key[k][1] + 2 * key[k][2]) % 3))] :
            key \in [1..n -> (1..2) \X (0..1)], names \in [1..2 -> Filenames]} :
                n \in 0..MaxRanked}

\* three fragments of 60 characters under a budget of 100
ExampleRanked ==
    [k \in 1..3 |-> ChosenItem(1, "a.pdf", k - 1, 60)]

ContextCalls ==
    (RankedLists \X (0..MaxBudget)) \cup {<<ExampleRanked, 100>>}

NoContext == [context |-> <<>>, sources |-> <<>>, seenSources |-> {}, taken |-> {},
              stopped |-> FALSE]

InitContext ==
    /\ ctxPc = "idle"
    /\ ranked = <<>>
    /\ maxChars = 0
    /\ built = NoContext
    /\ cited = <<>>

\* buildContext(chosen.map(...), maxChars)
ContextBuild ==
    /\ ctxPc = "idle"
    /\ \E c \in ContextCalls :
        /\ ranked' = c[1]
        /\ maxChars' = c[2]
        /\ built' = buildContext(ToFragments(c[1]), c[2])
    /\ ctxPc' = "built"
    /\ UNCHANGED cited
    /\ UNCHANGED <<chunkVars, embedVars, dbVars, ingestVars, ftsVars, fixedVars,
                   barVars, deleteVars, queryVars, simVars, streamVars>>

\* sources.map(...) of the route
ContextCite ==
    /\ ctxPc = "built"
    /\ cited' = SourcesWithDocId(built.sources, ranked)
    /\ ctxPc' = "cited"
    /\ UNCHANGED <<ranked, maxChars, built>>
    /\ UNCHANGED <<chunkVars, embedVars, dbVars, ingestVars, ftsVars, fixedVars,
                   barVars, deleteVars, queryVars, simVars, streamVars>>

NextContext == ContextBuild \/ ContextCite

----------------------------------------------------------------------------
(* POST /api/query: validation, question embedding, candidate selection,    *)
(* ranking, context assembly and generation.                                *)

\* MAX_EMBEDDINGS_SEARCH (environment, default 1000) and PREFILTER_LIMIT
\* (README, default 200), here configured to small values.
MAX_EMBEDDINGS_SEARCH == 3

PREFILTER_LIMIT == 2

\* Most Embedding rows in the generated database.
MaxRows == 4

\* Chunks per document in the generated database.
RowsPerDoc == 2

\* body.question of the generated requests: absent, a number (0 is falsy),
\* and strings, among them the empty one and whitespace-only ones.
NoQuestion == [type |-> "undefined", number |-> 0, chars |-> <<>>]

Questions ==
    {NoQuestion}
        \cup {[type |-> "number", number |-> n, chars |-> <<>>] : n \in {0, 7}}
        \cup {[type |-> "string", number |-> 0, chars |-> c] :
                    c \in {<<>>, <<Ws>>, <<Ws, Ws>>, <<"a">>, <<Ws, "a", Ws>>}}

\* The Chunk row and the Embedding row number k (in creation order) of the
\* generated database; bad is the number of the row whose stored vector is
\* not a non-empty array (0: none).
QueryChunk(k) ==
    [documentId |-> 1 + ((k - 1) \div RowsPerDoc),
     chunkIndex |-> (k - 1) % RowsPerDoc, by |-> 1]

\* The numbers of the embedding of text t.
Numbers(v) == <<1, v.of % 3>>

QueryEmbedding(k, bad) ==
    [chunk |-> QueryChunk(k),
     vector |-> IF k = bad THEN <<>> ELSE Numbers(Vec(k)),
     createdAt |-> k]

\* Document.filename of the generated databases: every document under a name
\* of its own, or all documents under one name (savePdfToDisk names a file
\* by the millisecond of its upload and its sanitized name).
DocFilename(d) == IF d = 1 THEN "a.pdf" ELSE "b.pdf"

FilenameColumns == {[d \in Docs |-> DocFilename(d)], [d \in Docs |-> "a.pdf"]}

\* The values of TOP_K the generated environments configure.
TopKSettings == {0 - 1, 2}

\* Chunk.text of the generated database: the first chunks of documents 1
\* and 2 have 1 and 2 characters, their later chunks 3 characters more each.
ChunkTextOf(c) ==
    FragmentText(c.documentId, c.chunkIndex, c.documentId + 3 * c.chunkIndex)

\* Sequences without repetition of at most n elements of S.
DistinctSeqs(S, n) ==
    UNION {{q \in [1..m -> S] : \A i, j \in 1..m : i # j => q[i] # q[j]} : m \in 0..n}

\* A database after some ingestions, and what the full-text index holds.
InitQueryDb ==
    \E n \in 0..MaxRows, bad \in 0..MaxRows :
        /\ bad <= n
        /\ documents = {QueryChunk(k).documentId : k \in 1..n}
        /\ docFragments =
              [d \in Docs |-> Cardinality({k \in 1..n : QueryChunk(k).documentId = d})]
        /\ chunkRows = {QueryChunk(k) : k \in 1..n}
        /\ embeddingRows = {QueryEmbedding(k, bad) : k \in 1..n}
        /\ ftsAvailable \in BOOLEAN
        /\ ftsHits \in DistinctSeqs({QueryChunk(k) : k \in 1..n}, PREFILTER_LIMIT)

InitFts ==
    /\ ftsAvailable = TRUE
    /\ ftsHits = <<>>

NoResponse == [sources |-> <<>>, k |-> 0, error |-> "none"]

InitQuery ==
    /\ queryPc = "idle"
    /\ question = NoQuestion
    /\ queryStatus = 0
    /\ queryVector = NoResult
    /\ embeddings = <<>>
    /\ vectorRows = <<>>
    /\ chosen = <<>>
    /\ context = <<>>
    /\ sources = <<>>
    /\ prompt = NoResult
    /\ answer = NoResult
    /\ llmCalls = 0
    /\ genState = "Idle"
    /\ response = NoResponse
    /\ llmPromise = "unstarted"
    /\ timer = "unset"
    /\ embedCalls = 0
    /\ dbReads = 0

\* prisma.embedding.findMany({take, orderBy: {createdAt: 'desc'}})
MostRecent(tbl, n) ==
    [p \in 1..Min(n, Cardinality(tbl)) |->
        CHOOSE e \in tbl :
            Cardinality({f \in tbl : f.createdAt > e.createdAt}) = p - 1]

HasVector(emb) == emb.vector # <<>>

\* embeddings.filter(...).map(...)
VectorRowsOf(embs) ==
    LET kept == SelectSeq(embs, HasVector)
    IN  [k \in 1..Len(kept) |->
            [id |-> kept[k].chunk, vector |-> kept[k].vector,
             docId |-> kept[k].chunk.documentId,
             chunkIndex |-> kept[k].chunk.chunkIndex,
             filename |-> docFilename[kept[k].chunk.documentId],
             text |-> ChunkTextOf(kept[k].chunk)]]

\* Whether a value of body.question is truthy (!question is its negation).
Truthy(q) ==
    CASE q.type = "undefined" -> FALSE
      [] q.type = "number" -> q.number # 0
      [] OTHER -> q.chars # <<>>

\* The negation of the test of line 30.
QuestionIsString(q) == q.type = "string"

QuestionIsValid(q) ==
    ~(~Truthy(q) \/ q.type # "string" \/ Len(Trim(q.chars)) = 0)

\* The request arrives; the question is validated.
QueryRequest ==
    /\ queryPc = "idle"
    /\ \E q \in Questions :
        /\ question' = q
        /\ IF QuestionIsValid(q)
           THEN queryPc' = "count" /\ queryStatus' = 0
           ELSE queryPc' = "done" /\ queryStatus' = 400
    /\ UNCHANGED <<queryVector, embeddings, vectorRows, embedCalls, dbReads>>
    /\ UNCHANGED <<chosen, context, sources, prompt, answer,
                   llmCalls, genState, response, llmPromise, timer>>
    /\ UNCHANGED <<chunkVars, embedVars, dbVars, ingestVars, ftsVars, fixedVars,
                   barVars, deleteVars, simVars, ctxVars, streamVars>>

\* prisma.chunk.count()
QueryCount ==
    /\ queryPc = "count"
    /\ dbReads' = dbReads + 1
    /\ IF chunkRows = {}
       THEN queryPc' = "done" /\ queryStatus' = 422
       ELSE queryPc' = "embed" /\ queryStatus' = 0
    /\ UNCHANGED <<question, queryVector, embeddings, vectorRows, embedCalls>>
    /\ UNCHANGED <<chosen, context, sources, prompt, answer,
                   llmCalls, genState, response, llmPromise, timer>>
    /\ UNCHANGED <<chunkVars, embedVars, dbVars, ingestVars, ftsVars, fixedVars,
                   barVars, deleteVars, simVars, ctxVars, streamVars>>

\* embedWithOllama([question]) sends its one batch.
QueryEmbedSend ==
    /\ queryPc = "embed"
    /\ queryPc' = "await"
    /\ embedCalls' = embedCalls + 1
    /\ UNCHANGED <<question, queryStatus, queryVector, embeddings, vectorRows, dbReads>>
    /\ UNCHANGED <<chosen, context, sources, prompt, answer,
                   llmCalls, genState, response, llmPromise, timer>>
    /\ UNCHANGED <<chunkVars, embedVars, dbVars, ingestVars, ftsVars, fixedVars,
                   barVars, deleteVars, simVars, ctxVars, streamVars>>

\* The status the route answers with when embedWithOllama throws: the call
\* is inside the outer try only, whose catch answers 500 for every error.
StatusOfQueryEmbedError(err) == 500

\* embedWithOllama([question]) returns or throws; a throw reaches the outer
\* catch of the route.
QueryEmbedRespond ==
    /\ queryPc = "await"
    /\ \E kind \in ResponseKinds :
        LET got == ProviderVectors(kind, <<0>>)
        IN  IF EmbedErrorOf(kind) # "none"
            THEN /\ queryPc' = "done"
                 /\ queryStatus' = StatusOfQueryEmbedError(EmbedErrorOf(kind))
                 /\ response' = [response EXCEPT !.error = EmbedErrorOf(kind)]
                 /\ UNCHANGED queryVector
            ELSE IF got = <<>>
            THEN /\ queryPc' = "done"
                 /\ queryStatus' = 500
                 /\ response' = [response EXCEPT !.error = "NoQuestionEmbedding"]
                 /\ UNCHANGED queryVector
            ELSE /\ queryPc' = "fetch"
                 /\ queryVector' = Returned(got[1])
                 /\ UNCHANGED <<queryStatus, response>>
    /\ UNCHANGED <<question, embeddings, vectorRows, embedCalls, dbReads>>
    /\ UNCHANGED <<chosen, context, sources, prompt, answer,
                   llmCalls, genState, llmPromise, timer>>
    /\ UNCHANGED <<chunkVars, embedVars, dbVars, ingestVars, ftsVars, fixedVars,
                   barVars, deleteVars, simVars, ctxVars, streamVars>>

\* prisma.embedding.findMany and the construction of vectorRows.
QueryFetch ==
    /\ queryPc = "fetch"
    /\ dbReads' = dbReads + 1
    /\ embeddings' = MostRecent(embeddingRows, MAX_EMBEDDINGS_SEARCH)
    /\ IF embeddingRows = {}
       THEN /\ queryPc' = "done"
            /\ queryStatus' = 422
            /\ UNCHANGED vectorRows
       ELSE /\ queryPc' = "rank"
            /\ vectorRows' =
                    VectorRowsOf(MostRecent(embeddingRows, MAX_EMBEDDINGS_SEARCH))
            /\ UNCHANGED queryStatus
    /\ UNCHANGED <<question, queryVector, embedCalls>>
    /\ UNCHANGED <<chosen, context, sources, prompt, answer,
                   llmCalls, genState, response, llmPromise, timer>>
    /\ UNCHANGED <<chunkVars, embedVars, dbVars, ingestVars, ftsVars, fixedVars,
                   barVars, deleteVars, simVars, ctxVars, streamVars>>

\* TOP_K and MAX_CONTEXT_CHARS (environment, defaults 5 and 3000), here
\* configured to small values.
TOP_K == envTopK

MAX_CONTEXT_CHARS == 3

\* rankByCosine(queryVector, vectorRows, TOP_K)
QueryRank ==
    /\ queryPc = "rank"
    /\ chosen' = rankByCosine(Numbers(queryVector.value), vectorRows, TOP_K)
    /\ queryPc' = "context"
    /\ UNCHANGED <<question, queryStatus, queryVector, embeddings, vectorRows>>
    /\ UNCHANGED <<context, sources, prompt, answer, llmCalls, genState, response>>
    /\ UNCHANGED <<embedCalls, dbReads, llmPromise, timer>>
    /\ UNCHANGED <<chunkVars, embedVars, dbVars, ingestVars, ftsVars, fixedVars,
                   barVars, deleteVars, simVars, ctxVars, streamVars>>

\* context.length === 0
ContextIsEmptyNever(c) == FALSE

ContextIsEmpty(c) == Len(c) = 0

\* buildContext(chosen.map(...), MAX_CONTEXT_CHARS) and the test of its result
QueryContext ==
    /\ queryPc = "context"
    /\ LET result == buildContext(ToFragments(chosen), MAX_CONTEXT_CHARS)
       IN  /\ context' = result.context
           /\ sources' = result.sources
           /\ IF ContextIsEmpty(result.context)
              THEN /\ queryPc' = "done"
                   /\ queryStatus' = 422
                   /\ UNCHANGED genState
              ELSE /\ queryPc' = "prompt"
                   /\ genState' = "Prompting"
                   /\ UNCHANGED queryStatus
    /\ UNCHANGED <<question, queryVector, embeddings, vectorRows>>
    /\ UNCHANGED <<chosen, prompt, answer, llmCalls, response>>
    /\ UNCHANGED <<embedCalls, dbReads, llmPromise, timer>>
    /\ UNCHANGED <<chunkVars, embedVars, dbVars, ingestVars, ftsVars, fixedVars,
                   barVars, deleteVars, simVars, ctxVars, streamVars>>

\* buildPrompt(question, context): a fixed template around the two
buildPrompt(q, c) == [question |-> q, context |-> c]

QueryPrompt ==
    /\ queryPc = "prompt"
    /\ prompt' = Returned(buildPrompt(question, context))
    /\ queryPc' = "generate"
    /\ UNCHANGED <<question, queryStatus, queryVector, embeddings, vectorRows>>
    /\ UNCHANGED <<chosen, context, sources, answer, llmCalls, genState, response>>
    /\ UNCHANGED <<embedCalls, dbReads, llmPromise, timer>>
    /\ UNCHANGED <<chunkVars, embedVars, dbVars, ingestVars, ftsVars, fixedVars,
                   barVars, deleteVars, simVars, ctxVars, streamVars>>

\* The timer is set, generateWithOllama(prompt) is called, and the route
\* awaits Promise.race of the two.
QueryGenerate ==
    /\ queryPc = "generate"
    /\ llmCalls' = llmCalls + 1
    /\ genState' = "Streaming"
    /\ queryPc' = "llm"
    /\ llmPromise' = "pending"
    /\ timer' = "armed"
    /\ UNCHANGED <<question, queryStatus, queryVector, embeddings, vectorRows>>
    /\ UNCHANGED <<chosen, context, sources, prompt, answer, response>>
    /\ UNCHANGED <<embedCalls, dbReads>>
    /\ UNCHANGED <<chunkVars, embedVars, dbVars, ingestVars, ftsVars, fixedVars,
                   barVars, deleteVars, simVars, ctxVars, streamVars>>

\* How Promise.race can settle: with the answer, or with an error whose
\* message names an unreachable server, a missing model, the timeout or
\* anything else.
LlmOutcomes == {"answer", "cannotConnect", "notFound", "timeout", "other"}

\* The status the catch block of the generation answers with.
StatusOfLlmError(outcome) ==
    CASE outcome = "cannotConnect" -> 503
      [] outcome = "notFound" -> 404
      [] OTHER -> 500

\* The state the generation ends in; the route never retries.
GenAfterRetry(outcome) == IF outcome = "answer" THEN "Completed" ELSE "Prompting"

GenAfter(outcome) == IF outcome = "answer" THEN "Completed" ELSE "Failed"

\* Promise.race settles with the first of its promises that settles: the
\* settlement of the other one, later, reaches nobody.
IgnoredNever(pc) == FALSE

Ignored(pc) == pc # "llm"

\* Promise.race settles; the route answers.
Settle(outcome) ==
    /\ genState' = GenAfter(outcome)
    /\ queryPc' = IF GenAfter(outcome) = "Prompting" THEN "prompt" ELSE "done"
    /\ IF outcome = "answer"
       THEN /\ answer' = Returned("text")
            /\ queryStatus' = 200
            /\ response' = [sources |-> SourcesWithDocId(sources, chosen),
                            k |-> Len(chosen), error |-> "none"]
       ELSE /\ queryStatus' = StatusOfLlmError(outcome)
            /\ response' = [response EXCEPT !.error = outcome]
            /\ UNCHANGED answer
    /\ UNCHANGED <<question, queryVector, embeddings, vectorRows>>
    /\ UNCHANGED <<chosen, context, sources, prompt, llmCalls>>
    /\ UNCHANGED <<embedCalls, dbReads>>

\* generateWithOllama settles: first, or after the timer.
QueryGenerated ==
    /\ llmPromise = "pending"
    /\ \E outcome \in LlmOutcomes \ {"timeout"} :
        /\ llmPromise' = outcome
        /\ IF Ignored(queryPc) THEN UNCHANGED routeVars ELSE Settle(outcome)
    /\ UNCHANGED timer
    /\ UNCHANGED <<chunkVars, embedVars, dbVars, ingestVars, ftsVars, fixedVars,
                   barVars, deleteVars, simVars, ctxVars, streamVars>>

\* The timer of line 129 expires: first, or after generateWithOllama has
\* settled (the route never clears it).
QueryTimeout ==
    /\ timer = "armed"
    /\ timer' = "expired"
    /\ IF Ignored(queryPc) THEN UNCHANGED routeVars ELSE Settle("timeout")
    /\ UNCHANGED llmPromise
    /\ UNCHANGED <<chunkVars, embedVars, dbVars, ingestVars, ftsVars, fixedVars,
                   barVars, deleteVars, simVars, ctxVars, streamVars>>

NextQuery ==
    QueryRequest \/ QueryCount \/ QueryEmbedSend \/ QueryEmbedRespond \/ QueryFetch
        \/ QueryRank \/ QueryContext \/ QueryPrompt \/ QueryGenerate
        \/ QueryGenerated \/ QueryTimeout

----------------------------------------------------------------------------
(* The streaming generation (POST /api/query-stream and its orchestrator),  *)
(* which the design specification (section 4.5) and appSoFar.md describe:   *)
(* increments of the answer arrive one by one, a "Stop generating" request  *)
(* is checked between increments, and a partial answer is saved.            *)

\* Most increments the language model produces for one answer.
MaxIncrements == 3

Tokens == {"x", "y"}

Answers == UNION {[1..n -> Tokens] : n \in 0..MaxIncrements}

\* What is persisted when the cancellation is observed: the text so far.
PersistNothing(acc) == NoResult

PersistPartial(acc) == Returned(acc)

InitStream ==
    /\ streamState = "Idle"
    /\ pending = <<>>
    /\ accumulated = <<>>
    /\ cancelSignal = FALSE
    /\ persisted = NoResult
    /\ streamError = "none"

\* A request arrives; the answer the model is going to produce is pending.
StreamRequest ==
    /\ streamState = "Idle"
    /\ pending' \in Answers
    /\ streamState' = "Prompting"
    /\ UNCHANGED <<accumulated, cancelSignal, persisted, streamError>>
    /\ UNCHANGED <<chunkVars, embedVars, dbVars, ingestVars, ftsVars, fixedVars,
                   barVars, deleteVars, queryVars, simVars, ctxVars>>

\* The prompt is built and the language model is invoked.
StreamPrompt ==
    /\ streamState = "Prompting"
    /\ streamState' = "Streaming"
    /\ UNCHANGED <<pending, accumulated, cancelSignal, persisted, streamError>>
    /\ UNCHANGED <<chunkVars, embedVars, dbVars, ingestVars, ftsVars, fixedVars,
                   barVars, deleteVars, queryVars, simVars, ctxVars>>

\* The user presses "Stop generating".
StreamCancel ==
    /\ streamState \in {"Prompting", "Streaming"}
    /\ ~cancelSignal
    /\ cancelSignal' = TRUE
    /\ UNCHANGED <<streamState, pending, accumulated, persisted, streamError>>
    /\ UNCHANGED <<chunkVars, embedVars, dbVars, ingestVars, ftsVars, fixedVars,
                   barVars, deleteVars, queryVars, simVars, ctxVars>>

\* One turn of the streaming loop: the signal is checked, then the next
\* increment is appended, or the end of the sequence completes the answer.
StreamStep ==
    /\ streamState = "Streaming"
    /\ IF cancelSignal
       THEN /\ streamState' = "Cancelled"
            /\ persisted' = PersistPartial(accumulated)
            /\ UNCHANGED <<pending, accumulated>>
       ELSE IF pending = <<>>
       THEN /\ streamState' = "Completed"
            /\ persisted' = Returned(accumulated)
            /\ UNCHANGED <<pending, accumulated>>
       ELSE /\ accumulated' = Append(accumulated, Head(pending))
            /\ pending' = Tail(pending)
            /\ UNCHANGED <<streamState, persisted>>
    /\ UNCHANGED <<cancelSignal, streamError>>
    /\ UNCHANGED <<chunkVars, embedVars, dbVars, ingestVars, ftsVars, fixedVars,
                   barVars, deleteVars, queryVars, simVars, ctxVars>>

\* The deadline expires, or the language-model client fails: Failed, and
\* nothing is persisted.
StreamFail ==
    /\ streamState = "Streaming"
    /\ streamError' \in {"Timeout", "DependencyUnavailable", "NotFound"}
    /\ streamState' = "Failed"
    /\ UNCHANGED <<pending, accumulated, cancelSignal, persisted>>
    /\ UNCHANGED <<chunkVars, embedVars, dbVars, ingestVars, ftsVars, fixedVars,
                   barVars, deleteVars, queryVars, simVars, ctxVars>>

NextStream == StreamRequest \/ StreamPrompt \/ StreamCancel \/ StreamStep \/ StreamFail

----------------------------------------------------------------------------
(* DELETE /api/conversations/[id]: the rows of the conversation's documents *)
(* are deleted statement by statement, then their files are removed.        *)
(* Paths are strings, sequences of characters; "/" separates segments.      *)

\* process.cwd() and the UPLOAD_DIR of the generated environments.
Cwd == <<"/", "a">>

DefaultUploadDir == <<".", "/", "u">>

\* path.resolve(process.cwd(), filePath): the segments of a string
RECURSIVE Segments(_)
Segments(s) ==
    IF s = <<>> THEN << <<>> >>
    ELSE LET rest == Segments(Tail(s))
         IN  IF Head(s) = "/" THEN << <<>> >> \o rest
             ELSE << <<Head(s)>> \o rest[1] >> \o Tail(rest)

\* the directory stack after the first n segments: "" and "." stay, ".."
\* goes up
RECURSIVE Normalized(_, _)
Normalized(segs, n) ==
    IF n = 0 THEN <<>>
    ELSE LET before == Normalized(segs, n - 1)
         IN  CASE segs[n] \in {<<>>, <<".">>} -> before
               [] segs[n] = <<".", ".">> ->
                    IF before = <<>> THEN <<>> ELSE SubSeq(before, 1, Len(before) - 1)
               [] OTHER -> Append(before, segs[n])

RECURSIVE JoinPath(_)
JoinPath(stack) ==
    IF stack = <<>> THEN <<>> ELSE <<"/">> \o Head(stack) \o JoinPath(Tail(stack))

IsAbsolute(p) == p # <<>> /\ Head(p) = "/"

resolveFilePath(filePath) ==
    LET full == IF IsAbsolute(filePath) THEN filePath ELSE Cwd \o <<"/">> \o filePath
        stack == Normalized(Segments(full), Len(Segments(full)))
    IN  IF stack = <<>> THEN <<"/">> ELSE JoinPath(stack)

\* String.prototype.startsWith
StartsWith(s, prefix) ==
    Len(prefix) <= Len(s) /\ SubSeq(s, 1, Len(prefix)) = prefix

\* The name of the file of document d.
DocChar(d) == IF d = 1 THEN "p" ELSE IF d = 2 THEN "q" ELSE "r"

\* Document.originalPath of the generated databases: in the upload
\* directory; in a sibling directory whose name begins with the upload
\* directory's; reached through ".."; absolute elsewhere; empty.
PathKinds == {"inside", "sibling", "traversal", "absolute", "empty"}

PathOf(kind, d) ==
    CASE kind = "inside" -> <<"u", "/", DocChar(d)>>
      [] kind = "sibling" -> <<"u", "x", "/", DocChar(d)>>
      [] kind = "traversal" -> <<"u", "/", ".", ".", "/", "x", "/", DocChar(d)>>
      [] kind = "absolute" -> <<"/", "x", "/", DocChar(d)>>
      [] OTHER -> <<>>

InsidePaths == [d \in Docs |-> PathOf("inside", d)]

\* every document in the upload directory, but for at most one of them
PathColumns ==
    {InsidePaths} \cup
        {[d \in Docs |-> PathOf(IF d = odd THEN kind ELSE "inside", d)] :
            odd \in Docs, kind \in PathKinds}

\* The ids of the conversations of the generated databases; 0 stands for a
\* NULL conversationId.
ConvIds == {1, 2}

\* The [id] segment of the generated requests.
IdChars == {"1", "2", "3", "x"}

IdSegments == UNION {[1..n -> IdChars] : n \in 0..2}

Digit(c) == CASE c = "1" -> 1 [] c = "2" -> 2 [] c = "3" -> 3 [] OTHER -> 0 - 1

\* parseInt(id, 10): the number its leading digits spell, NaN without any
RECURSIVE LeadingDigits(_)
LeadingDigits(s) ==
    IF s = <<>> \/ Digit(Head(s)) < 0 THEN <<>>
    ELSE <<Digit(Head(s))>> \o LeadingDigits(Tail(s))

RECURSIVE DecimalValue(_)
DecimalValue(ds) ==
    IF ds = <<>> THEN 0
    ELSE 10 * DecimalValue(SubSeq(ds, 1, Len(ds) - 1)) + ds[Len(ds)]

parseInt(s) ==
    [nan |-> LeadingDigits(s) = <<>>, value |-> DecimalValue(LeadingDigits(s))]

\* The order of the three deleteMany statements.
DeleteOrderDocumentsFirst == <<"documents", "chunks", "embeddings">>

DeleteOrder == <<"embeddings", "chunks", "documents">>

AfterDelete(stage) ==
    IF stage = DeleteOrder[Len(DeleteOrder)] THEN "files"
    ELSE DeleteOrder[1 + CHOOSE k \in 1..Len(DeleteOrder) : DeleteOrder[k] = stage]

\* A database after some ingestions, its documents in conversations (or in
\* none), and a disk that holds some of their files.
InitDeleteDb ==
    /\ \E n \in 0..MaxRows :
        /\ chunkRows = {QueryChunk(k) : k \in 1..n}
        /\ embeddingRows = {QueryEmbedding(k, 0) : k \in 1..n}
        /\ docFragments =
              [d \in Docs |-> Cardinality({k \in 1..n : QueryChunk(k).documentId = d})]
    /\ documents = Docs
    /\ conversations = ConvIds
    /\ docConversation \in [Docs -> ConvIds \cup {0}]
    /\ docPath \in PathColumns
    /\ envUploadDir = DefaultUploadDir
    /\ files \in SUBSET {resolveFilePath(docPath[d]) : d \in Docs}

InitConversations ==
    /\ conversations = {}
    /\ docConversation = [d \in Docs |-> 0]
    /\ files = {}

InitDelete ==
    /\ delPc = "idle"
    /\ delArg = 0
    /\ documentIds = <<>>
    /\ filePaths = <<>>
    /\ fileIndex = 1
    /\ filesRemoved = 0
    /\ delStatus = 0
    /\ delBelonged = {}
    /\ unlinked = {}

\* The ids in increasing order.
RECURSIVE Ascending(_)
Ascending(S) ==
    IF S = {} THEN <<>>
    ELSE LET least == CHOOSE x \in S : \A y \in S : x <= y
         IN  <<least>> \o Ascending(S \ {least})

\* The request arrives; the id is parsed.
DeleteRequest ==
    /\ delPc = "idle"
    /\ \E id \in IdSegments :
        IF parseInt(id).nan
        THEN /\ delPc' = "done"
             /\ delStatus' = 400
             /\ delArg' = 0
             /\ delBelonged' = {}
        ELSE /\ delPc' = "find"
             /\ delStatus' = 0
             /\ delArg' = parseInt(id).value
             /\ delBelonged' =
                    {d \in documents : docConversation[d] = parseInt(id).value}
    /\ documentIds' = <<>>
    /\ filePaths' = <<>>
    /\ fileIndex' = 1
    /\ filesRemoved' = 0
    /\ unlinked' = {}
    /\ UNCHANGED <<conversations, docConversation, files>>
    /\ UNCHANGED <<chunkVars, embedVars, dbVars, ingestVars, ftsVars, fixedVars,
                   barVars, queryVars, simVars, ctxVars, streamVars>>

\* prisma.document.findMany({where: {conversationId}})
DeleteFind ==
    /\ delPc = "find"
    /\ LET found == Ascending({d \in documents : docConversation[d] = delArg})
       IN  /\ documentIds' = found
           /\ filePaths' = [k \in 1..Len(found) |-> docPath[found[k]]]
    /\ delPc' = "conversation"
    /\ UNCHANGED <<conversations, docConversation, files, delArg, fileIndex,
                   filesRemoved, delStatus, delBelonged, unlinked>>
    /\ UNCHANGED <<chunkVars, embedVars, dbVars, ingestVars, ftsVars, fixedVars,
                   barVars, queryVars, simVars, ctxVars, streamVars>>

\* prisma.conversation.delete: P2025 when there is no such conversation;
\* the conversationId of its documents is set to NULL.
DeleteConversation ==
    /\ delPc = "conversation"
    /\ IF delArg \notin conversations
       THEN /\ delPc' = "done"
            /\ delStatus' = 404
            /\ UNCHANGED <<conversations, docConversation>>
       ELSE /\ conversations' = conversations \ {delArg}
            /\ docConversation' =
                    [d \in Docs |-> IF docConversation[d] = delArg THEN 0
                                    ELSE docConversation[d]]
            /\ delPc' = IF Len(documentIds) > 0 THEN DeleteOrder[1] ELSE "files"
            /\ UNCHANGED delStatus
    /\ UNCHANGED <<files, delArg, documentIds, filePaths, fileIndex, filesRemoved,
                   delBelonged, unlinked>>
    /\ UNCHANGED <<chunkVars, embedVars, dbVars, ingestVars, ftsVars, fixedVars,
                   barVars, queryVars, simVars, ctxVars, streamVars>>

IdsToDelete == {documentIds[k] : k \in 1..Len(documentIds)}

\* prisma.embedding.deleteMany({where: {chunk: {documentId: {in: documentIds}}}})
DeleteEmbeddings ==
    /\ delPc = "embeddings"
    /\ embeddingRows' =
            {e \in embeddingRows :
                ~\E c \in chunkRows : c = e.chunk /\ c.documentId \in IdsToDelete}
    /\ delPc' = AfterDelete("embeddings")
    /\ UNCHANGED <<documents, docFragments, chunkRows>>
    /\ UNCHANGED <<conversations, docConversation, files, delArg, documentIds,
                   filePaths, fileIndex, filesRemoved, delStatus, delBelonged,
                   unlinked>>
    /\ UNCHANGED <<chunkVars, embedVars, ingestVars, ftsVars, fixedVars, barVars,
                   queryVars, simVars, ctxVars, streamVars>>

\* prisma.chunk.deleteMany({where: {documentId: {in: documentIds}}})
DeleteChunks ==
    /\ delPc = "chunks"
    /\ chunkRows' = {c \in chunkRows : c.documentId \notin IdsToDelete}
    /\ delPc' = AfterDelete("chunks")
    /\ UNCHANGED <<documents, docFragments, embeddingRows>>
    /\ UNCHANGED <<conversations, docConversation, files, delArg, documentIds,
                   filePaths, fileIndex, filesRemoved, delStatus, delBelonged,
                   unlinked>>
    /\ UNCHANGED <<chunkVars, embedVars, ingestVars, ftsVars, fixedVars, barVars,
                   queryVars, simVars, ctxVars, streamVars>>

\* prisma.document.deleteMany({where: {id: {in: documentIds}}})
DeleteDocuments ==
    /\ delPc = "documents"
    /\ documents' = documents \ IdsToDelete
    /\ delPc' = AfterDelete("documents")
    /\ UNCHANGED <<docFragments, chunkRows, embeddingRows>>
    /\ UNCHANGED <<conversations, docConversation, files, delArg, documentIds,
                   filePaths, fileIndex, filesRemoved, delStatus, delBelonged,
                   unlinked>>
    /\ UNCHANGED <<chunkVars, embedVars, ingestVars, ftsVars, fixedVars, barVars,
                   queryVars, simVars, ctxVars, streamVars>>

\* One of the deleteMany statements throws: the catch block answers 500.
DeleteFail ==
    /\ delPc \in {DeleteOrder[k] : k \in 1..Len(DeleteOrder)}
    /\ delPc' = "done"
    /\ delStatus' = 500
    /\ UNCHANGED <<conversations, docConversation, files, delArg, documentIds,
                   filePaths, fileIndex, filesRemoved, delBelonged, unlinked>>
    /\ UNCHANGED <<chunkVars, embedVars, dbVars, ingestVars, ftsVars, fixedVars,
                   barVars, queryVars, simVars, ctxVars, streamVars>>

\* One turn of the loop over filePaths: an empty path and a path outside
\* the upload directory are skipped; unlink removes the file or throws
\* ENOENT, which is ignored.
DeleteFile ==
    /\ delPc = "files"
    /\ fileIndex <= Len(filePaths)
    /\ LET filePath == filePaths[fileIndex]
           absolutePath == resolveFilePath(filePath)
           resolvedUploadDir == resolveFilePath(envUploadDir)
       IN  IF filePath = <<>> \/ ~StartsWith(absolutePath, resolvedUploadDir)
           THEN UNCHANGED <<files, filesRemoved, unlinked>>
           ELSE IF absolutePath \in files
           THEN /\ files' = files \ {absolutePath}
                /\ filesRemoved' = filesRemoved + 1
                /\ unlinked' = unlinked \cup {absolutePath}
           ELSE UNCHANGED <<files, filesRemoved, unlinked>>
    /\ fileIndex' = fileIndex + 1
    /\ UNCHANGED <<conversations, docConversation, delPc, delArg, documentIds,
                   filePaths, delStatus, delBelonged>>
    /\ UNCHANGED <<chunkVars, embedVars, dbVars, ingestVars, ftsVars, fixedVars,
                   barVars, queryVars, simVars, ctxVars, streamVars>>

\* The loop has ended: {deleted: true, filesRemoved, docsRemoved}.
DeleteReturn ==
    /\ delPc = "files"
    /\ fileIndex > Len(filePaths)
    /\ delPc' = "done"
    /\ delStatus' = 200
    /\ UNCHANGED <<conversations, docConversation, files, delArg, documentIds,
                   filePaths, fileIndex, filesRemoved, delBelonged, unlinked>>
    /\ UNCHANGED <<chunkVars, embedVars, dbVars, ingestVars, ftsVars, fixedVars,
                   barVars, queryVars, simVars, ctxVars, streamVars>>

NextDelete ==
    DeleteRequest \/ DeleteFind \/ DeleteConversation \/ DeleteEmbeddings
        \/ DeleteChunks \/ DeleteDocuments \/ DeleteFail \/ DeleteFile
        \/ DeleteReturn

----------------------------------------------------------------------------
(* The chat input bar (components/chat/InputBar.tsx) *)

MAX_FILES == 10

MaxUploads == 2

MaxSends == 2

UploadCalls == 1..MaxUploads

\* conversationId: null
NoConversation == 0

\* A File of a selection: its name, its type and what POST /api/upload does
\* with it ("ok" | "rejected": !res.ok | "throws": fetch rejects).
Pdf(n) == [name |-> n, type |-> "application/pdf", upload |-> "ok"]

Other(n) == [name |-> n, type |-> "text/plain", upload |-> "ok"]

Rejected(n) == [name |-> n, type |-> "application/pdf", upload |-> "rejected"]

Throwing(n) == [name |-> n, type |-> "application/pdf", upload |-> "throws"]

\* The selections of the file dialog: one PDF; PDFs mixed with a file of
\* another type and with uploads that fail; one more PDF than MAX_FILES; no PDF.
Selections ==
    { <<Pdf(1)>>,
      <<Pdf(1), Other(2), Rejected(3), Throwing(4), Pdf(5)>>,
      [i \in 1..(MAX_FILES + 1) |-> Pdf(i)],
      <<Other(1)>> }

\* What the user types.
Inputs == { <<>>, <<Ws>>, <<"a">> }

\* {filename: json.filename, sizeBytes}: the stored name is made by the upload
\* (Date.now() and the file's name), so it names the file and the upload.
AttachmentOf(u, f) == [name |-> f.name, upload |-> u]

\* files.slice(0, MAX_FILES)
FirstFiles(fs) == SubSeq(fs, 1, Min(Len(fs), MAX_FILES))

\* The position of the first PDF of sel at or after from; 0 when there is none.
NextPdf(sel, from) ==
    LET J == {j \in from..Len(sel) : sel[j].type = "application/pdf"}
    IN IF J = {} THEN 0 ELSE CHOOSE j \in J : \A k \in J : j <= k

InitBar ==
    /\ barInput = <<>>
    /\ disabled = FALSE
    /\ isUploading = FALSE
    /\ pendingAttachments = <<>>
    /\ upPc = [u \in UploadCalls |-> "idle"]
    /\ upFiles = [u \in UploadCalls |-> <<>>]
    /\ selected = [u \in UploadCalls |-> <<>>]
    /\ fileIdx = [u \in UploadCalls |-> 0]
    /\ newAttachments = [u \in UploadCalls |-> <<>>]
    /\ timers = [u \in UploadCalls |-> "unset"]
    /\ fetched = [u \in UploadCalls |-> <<>>]
    /\ sent = <<>>

InitBarProps ==
    /\ conversationId = 1
    /\ onEnsureConversation = FALSE

\* onChange of the textarea: setInput(e.target.value)
BarChange ==
    /\ ~disabled
    /\ \E t \in Inputs : barInput' = t
    /\ UNCHANGED <<disabled, isUploading, pendingAttachments, uploadVars, sent, barProps>>
    /\ UNCHANGED <<chunkVars, embedVars, dbVars, ingestVars, ftsVars, fixedVars,
                   deleteVars, simVars, ctxVars, streamVars, queryVars>>

\* The parent renders the bar with the other value of disabled.
BarSetDisabled ==
    /\ disabled' = ~disabled
    /\ UNCHANGED <<barInput, isUploading, pendingAttachments, uploadVars, sent, barProps>>
    /\ UNCHANGED <<chunkVars, embedVars, dbVars, ingestVars, ftsVars, fixedVars,
                   deleteVars, simVars, ctxVars, streamVars, queryVars>>

\* onSend(message, attachments), recorded with the path that called it and
\* the value of isUploading at the call.
OnSend(message, attachments, path) ==
    sent' = Append(sent, [message |-> message, attachments |-> attachments,
                          path |-> path, isUploading |-> isUploading])

\* handleSend
handleSend(path) ==
    LET hasContent == Len(Trim(barInput)) > 0 \/ Len(pendingAttachments) > 0
    IN IF hasContent /\ ~disabled
       THEN /\ OnSend(Trim(barInput),
                      IF Len(pendingAttachments) > 0
                      THEN [defined |-> TRUE, list |-> pendingAttachments]
                      ELSE [defined |-> FALSE, list |-> <<>>],
                      path)
            /\ barInput' = <<>>
            /\ pendingAttachments' = <<>>
       ELSE UNCHANGED <<sent, barInput, pendingAttachments>>

\* disabled of the Send button
SendButtonDisabled ==
    (Len(Trim(barInput)) = 0 /\ Len(pendingAttachments) = 0) \/ disabled \/ isUploading

\* A click on the Send button.
BarClickSend ==
    /\ ~SendButtonDisabled
    /\ Len(sent) < MaxSends
    /\ handleSend("button")
    /\ UNCHANGED <<disabled, isUploading, uploadVars, barProps>>
    /\ UNCHANGED <<chunkVars, embedVars, dbVars, ingestVars, ftsVars, fixedVars,
                   deleteVars, simVars, ctxVars, streamVars, queryVars>>

\* handleKeyDown, Enter without Shift in the textarea (a disabled textarea
\* gets no key).
handleKeyDown ==
    /\ ~disabled
    /\ Len(sent) < MaxSends
    /\ LET hasContent == Len(Trim(barInput)) > 0 \/ Len(pendingAttachments) > 0
       IN IF hasContent /\ ~disabled
          THEN handleSend("enter")
          ELSE UNCHANGED <<sent, barInput, pendingAttachments>>
    /\ UNCHANGED <<disabled, isUploading, uploadVars, barProps>>
    /\ UNCHANGED <<chunkVars, embedVars, dbVars, ingestVars, ftsVars, fixedVars,
                   deleteVars, simVars, ctxVars, streamVars, queryVars>>

\* uploadFiles from the loop on: the files of sel before position from are
\* done and atts are the attachments pushed so far.  The call runs to the
\* fetch of the next PDF, where it is suspended with isUploading = up, or past
\* the end of the loop, where it adds atts to the pending attachments, starts
\* the auto-send timer and sets isUploading to false.
Continue(u, sel, from, atts, up) ==
    LET j == NextPdf(sel, from)
    IN /\ newAttachments' = [newAttachments EXCEPT ![u] = atts]
       /\ IF j # 0
          THEN /\ upPc' = [upPc EXCEPT ![u] = "fetch"]
               /\ fileIdx' = [fileIdx EXCEPT ![u] = j]
               /\ fetched' = [fetched EXCEPT ![u] = Append(@, sel[j])]
               /\ isUploading' = up
               /\ UNCHANGED <<pendingAttachments, timers>>
          ELSE /\ upPc' = [upPc EXCEPT ![u] = "returned"]
               /\ fileIdx' = [fileIdx EXCEPT ![u] = Len(sel) + 1]
               /\ pendingAttachments' =
                      IF Len(atts) > 0 THEN pendingAttachments \o atts
                      ELSE pendingAttachments
               /\ timers' = [timers EXCEPT ![u] = IF Len(atts) > 0 THEN "armed" ELSE @]
               /\ isUploading' = FALSE
               /\ UNCHANGED fetched

\* uploadFiles after the conversation is there: slice, setIsUploading(true),
\* and the loop.
Begin(u, fs) ==
    /\ selected' = [selected EXCEPT ![u] = FirstFiles(fs)]
    /\ Continue(u, FirstFiles(fs), 1, <<>>, TRUE)

\* handleFileSelect: the user picks files with the Add button, which is
\* disabled while disabled or isUploading; uploadFiles(files) starts and runs
\* to its first await.
handleFileSelect(u) ==
    /\ upPc[u] = "idle"
    /\ \A v \in UploadCalls : v < u => upPc[v] # "idle"
    /\ ~(disabled \/ isUploading)
    /\ \E fs \in Selections :
        /\ upFiles' = [upFiles EXCEPT ![u] = fs]
        /\ IF conversationId = NoConversation /\ onEnsureConversation
           THEN /\ upPc' = [upPc EXCEPT ![u] = "ensure"]
                /\ UNCHANGED <<selected, fileIdx, newAttachments, timers, fetched,
                               isUploading, pendingAttachments>>
           ELSE Begin(u, fs)
    /\ UNCHANGED <<barInput, disabled, sent, barProps>>
    /\ UNCHANGED <<chunkVars, embedVars, dbVars, ingestVars, ftsVars, fixedVars,
                   deleteVars, simVars, ctxVars, streamVars, queryVars>>

\* await onEnsureConversation() settles: with an id, with null, or rejected.
BarEnsured(u) ==
    /\ upPc[u] = "ensure"
    /\ \E outcome \in {"id", "null", "throws"} :
        IF outcome = "id"
        THEN Begin(u, upFiles[u])
        ELSE /\ upPc' = [upPc EXCEPT ![u] = "returned"]
             /\ UNCHANGED <<selected, fileIdx, newAttachments, timers, fetched,
                            isUploading, pendingAttachments>>
    /\ UNCHANGED <<barInput, disabled, sent, upFiles, barProps>>
    /\ UNCHANGED <<chunkVars, embedVars, dbVars, ingestVars, ftsVars, fixedVars,
                   deleteVars, simVars, ctxVars, streamVars, queryVars>>

\* await fetch('/api/upload') and res.json() settle for the file at fileIdx:
\* an accepted upload is pushed to newAttachments, a refused or failed one is
\* not; the loop goes on.
BarUploaded(u) ==
    /\ upPc[u] = "fetch"
    /\ LET f == selected[u][fileIdx[u]]
           atts == IF f.upload = "ok"
                   THEN Append(newAttachments[u], AttachmentOf(u, f))
                   ELSE newAttachments[u]
       IN Continue(u, selected[u], fileIdx[u] + 1, atts, isUploading)
    /\ UNCHANGED <<barInput, disabled, sent, upFiles, selected, barProps>>
    /\ UNCHANGED <<chunkVars, embedVars, dbVars, ingestVars, ftsVars, fixedVars,
                   deleteVars, simVars, ctxVars, streamVars, queryVars>>

\* The auto-send timer of call u fires: onSend('', newAttachments) and
\* setPendingAttachments([]).
BarTimer(u) ==
    /\ timers[u] = "armed"
    /\ timers' = [timers EXCEPT ![u] = "fired"]
    /\ OnSend(<<>>, [defined |-> TRUE, list |-> newAttachments[u]], "timer")
    /\ pendingAttachments' = <<>>
    /\ UNCHANGED <<barInput, disabled, isUploading, upPc, upFiles, selected, fileIdx,
                   newAttachments, fetched, barProps>>
    /\ UNCHANGED <<chunkVars, embedVars, dbVars, ingestVars, ftsVars, fixedVars,
                   deleteVars, simVars, ctxVars, streamVars, queryVars>>

NextBar ==
    \/ BarChange
    \/ BarSetDisabled
    \/ BarClickSend
    \/ handleKeyDown
    \/ \E u \in UploadCalls :
        \/ handleFileSelect(u)
        \/ BarEnsured(u)
        \/ BarUploaded(u)
        \/ BarTimer(u)

----------------------------------------------------------------------------
(* Specifications, one per component *)

\* An environment with TOP_K=2 and the default upload directory, every
\* document under a filename of its own and stored in the upload directory.
InitFixed ==
    /\ envTopK = 2
    /\ envUploadDir = DefaultUploadDir
    /\ docFilename = [d \in Docs |-> DocFilename(d)]
    /\ docPath = InsidePaths

Init ==
    /\ InitChunk /\ InitEmbed /\ InitDb /\ InitIngest /\ InitFts /\ InitQuery
    /\ InitSimilarity /\ InitContext /\ InitStream /\ InitFixed
    /\ InitConversations /\ InitDelete /\ InitBar /\ InitBarProps

NextChunk == ChunkCall \/ ChunkStep \/ ChunkExit

\* chunkText is synchronous code: once called it runs until it returns.
SpecChunk == Init /\ [][NextChunk]_vars /\ WF_vars(ChunkStep \/ ChunkExit)

SpecEmbed == Init /\ [][NextEmbed]_vars

SpecIngest == Init /\ [][NextIngest]_vars

\* Two requests for one document in flight together: a request arrives in a
\* free slot while no call is running, or for the document of the call that
\* is running, and the calls are suspended at every await (the guard's query,
\* the extraction of the text, the insertion, the embedding requests).  Each
\* slot serves one request.
IngestRequestSameDocument(c) ==
    /\ \A d \in Slots \ {c} :
            ingPc[d] # "idle" => (ingArg[d] \in documents /\ ingPc[d] # "done")
    /\ IngestRequest(c)
    /\ \A d \in Slots \ {c} : ingPc[d] # "idle" => ingArg'[c] = ingArg[d]

NextIngestConcurrent ==
    \E c \in Slots :
        \/ IngestRequestSameDocument(c)
        \/ IngestValidate(c)
        \/ IngestLookup(c)
        \/ IngestGuard(c)
        \/ IngestExtract(c)
        \/ IngestInsert(c)
        \/ IngestEmbedSend(c)
        \/ IngestEmbedRespond(c)
        \/ IngestPersist(c)

SpecIngestConcurrent == Init /\ [][NextIngestConcurrent]_vars

InitOfQuery ==
    /\ InitChunk /\ InitEmbed /\ InitIngest /\ InitQueryDb /\ InitQuery
    /\ InitSimilarity /\ InitContext /\ InitStream
    /\ envTopK \in TopKSettings
    /\ docFilename \in FilenameColumns
    /\ envUploadDir = DefaultUploadDir
    /\ docPath = InsidePaths
    /\ InitConversations /\ InitDelete /\ InitBar /\ InitBarProps

\* cosine and rankByCosine read no table: the database is an empty one.
InitOfSimilarity ==
    /\ InitChunk /\ InitEmbed /\ InitIngest /\ InitFts /\ InitQuery /\ InitSimilarity
    /\ InitContext /\ InitStream /\ InitFixed /\ InitConversations /\ InitDelete /\ InitBar /\ InitBarProps
    /\ documents = {}
    /\ docFragments = [d \in Docs |-> 0]
    /\ chunkRows = {}
    /\ embeddingRows = {}

SpecSimilarity == InitOfSimilarity /\ [][NextSimilarity]_vars

\* The streaming loop runs on until the generation ends; nobody has to press
\* "Stop generating".
SpecStream ==
    InitOfSimilarity /\ [][NextStream]_vars /\ WF_vars(StreamPrompt \/ StreamStep)

\* The DELETE handler alone, on a database with ingested documents.
InitOfDelete ==
    /\ InitChunk /\ InitEmbed /\ InitIngest /\ InitFts /\ InitQuery /\ InitSimilarity
    /\ InitContext /\ InitStream /\ InitDelete /\ InitBar /\ InitBarProps
    /\ envTopK = 2
    /\ docFilename = [d \in Docs |-> DocFilename(d)]
    /\ InitDeleteDb

SpecDelete == InitOfDelete /\ [][NextDelete]_vars

\* A query and a DELETE in flight together: the handlers are suspended at
\* every await, and the steps of the two interleave freely.
InitOfQueryDelete ==
    /\ InitChunk /\ InitEmbed /\ InitIngest /\ InitFts /\ InitQuery /\ InitSimilarity
    /\ InitContext /\ InitStream /\ InitDelete /\ InitBar /\ InitBarProps /\ InitFixed
    /\ \E n \in 0..MaxRows :
        /\ chunkRows = {QueryChunk(k) : k \in 1..n}
        /\ embeddingRows = {QueryEmbedding(k, 0) : k \in 1..n}
        /\ docFragments =
              [d \in Docs |-> Cardinality({k \in 1..n : QueryChunk(k).documentId = d})]
    /\ documents = Docs
    /\ conversations = ConvIds
    /\ docConversation \in [Docs -> ConvIds]
    /\ files = {resolveFilePath(docPath[d]) : d \in Docs}

InitOfBar ==
    /\ InitChunk /\ InitEmbed /\ InitIngest /\ InitFts /\ InitQuery
    /\ InitSimilarity /\ InitContext /\ InitStream /\ InitFixed
    /\ InitConversations /\ InitDelete /\ InitBar
    /\ documents = Docs
    /\ docFragments = [d \in Docs |-> 0]
    /\ chunkRows = {}
    /\ embeddingRows = {}
    /\ conversationId \in {NoConversation, 1}
    /\ onEnsureConversation \in BOOLEAN

SpecBar == InitOfBar /\ [][NextBar]_vars

SpecQueryDelete == InitOfQueryDelete /\ [][NextQuery \/ NextDelete]_vars

SpecContext == InitOfSimilarity /\ [][NextContext]_vars

\* Once a request has arrived the route runs on; the wait for the language
\* model is ended by its result or by the 90-second timer.
SpecQuery ==
    /\ InitOfQuery
    /\ [][NextQuery]_vars
    /\ WF_vars(QueryCount \/ QueryEmbedSend \/ QueryEmbedRespond \/ QueryFetch
                  \/ QueryRank \/ QueryContext \/ QueryPrompt \/ QueryGenerate
                  \/ QueryGenerated \/ QueryTimeout)

----------------------------------------------------------------------------
(* Properties of chunkText *)

\* The design's requirement on the configuration: 0 <= overlap < chunkSize.
ValidConfig == 0 <= overlap /\ overlap < chunkSize

Stride == chunkSize - overlap

FragsOf(sl) == [k \in 1..Len(sl) |-> sl[k].frag]

NonEmpty(s) == s # <<>>

ChunkTexts == [i \in 1..Len(chunks) |-> chunks[i].text]

\* Number of slices the design's algorithm examines on a text of length len:
\* slice k (from 0) is the first with k * stride + chunkSize >= len.
SliceCount(len) ==
    IF len = 0 THEN 0
    ELSE 1 + (CHOOSE k \in 0..len :
                /\ k * Stride + chunkSize >= len
                /\ \A j \in 0..(k - 1) : j * Stride + chunkSize < len)

\* The fragments the design's algorithm yields when it scans s itself.
PositionalFragments(s) ==
    SelectSeq([k \in 1..SliceCount(Len(s)) |->
                  Trim(SubSeq(s, (k - 1) * Stride + 1,
                              Min((k - 1) * Stride + chunkSize, Len(s))))],
              NonEmpty)

\* C2 (as claimed): a call with overlap < 0 or overlap >= chunkSize is rejected
\* with a configuration error; it neither scans the text nor returns fragments.
C2_InvalidOverlapRejected ==
    (chunkPc # "idle" /\ ~ValidConfig) => (chunkPc = "rejected" /\ slices = <<>>)

\* C3: with 0 <= overlap < chunkSize every loop step that does not end the scan
\* strictly increases the scan position, the number of steps never exceeds
\* ceil(len(text) / (chunkSize - overlap)), and the call returns.
C3_ScanAdvancesAndTerminates ==
    /\ [][(ValidConfig /\ chunkPc = "loop" /\ chunkPc' = "loop")
            => startIndex' > startIndex]_vars
    /\ [](ValidConfig =>
            /\ Len(slices) <= CeilDiv(Len(text), Stride)
            /\ \A k \in 1..(Len(slices) - 1) : slices[k + 1].from > slices[k].from)
    /\ ((ValidConfig /\ chunkPc = "loop") ~> (chunkPc = "done"))

C3_Witness ==
    /\ chunkPc = "done"
    /\ ValidConfig
    /\ overlap > 0
    /\ Len(slices) >= 2
    /\ Len(slices) = CeilDiv(Len(text), Stride)

\* C4 (as claimed): the slices are positional ranges of the text handed to the
\* chunker, so the fragments returned are the trimmed non-empty slices
\* [k*stride, min(k*stride + chunkSize, len)) of the input.
C4_SlicesOfInput ==
    (ValidConfig /\ chunkPc = "done") => ChunkTexts = PositionalFragments(input)

\* C4 (amended): the same, with the ranges taken in the input after its
\* surrounding whitespace was removed: slice k is [k*stride, min(k*stride +
\* chunkSize, len)) of the trimmed text, each fragment is that slice trimmed,
\* the scan stops with the first slice that reaches the end, and the example
\* (2000 characters, 1500, 200) yields [0,1500) and [1300,2000).
C4_SlicesOfTrimmedInput ==
    ValidConfig =>
        /\ text = Trim(input)
        /\ \A k \in 1..Len(slices) :
            /\ slices[k].from = (k - 1) * Stride
            /\ slices[k].to = Min((k - 1) * Stride + chunkSize, Len(text))
            /\ slices[k].frag = Trim(SubSeq(text, slices[k].from + 1, slices[k].to))
            /\ (slices[k].to = Len(text)) <=> (k = Len(slices) /\ chunkPc = "done")
        /\ ChunkTexts = SelectSeq(FragsOf(slices), NonEmpty)
        /\ (chunkPc = "done") => ChunkTexts = PositionalFragments(text)
        /\ (chunkPc = "done" /\ input = ExampleText /\ chunkSize = DefaultChunkSize
              /\ overlap = DefaultOverlap) =>
                /\ Len(chunks) = 2
                /\ chunks[1].text = SubSeq(input, 1, 1500)
                /\ chunks[2].text = SubSeq(input, 1301, 2000)
                /\ chunks[2].tokenCount = 700

C4_Witness ==
    /\ chunkPc = "done"
    /\ ValidConfig
    /\ input # text
    /\ overlap > 0
    /\ Len(chunks) >= 2
    /\ ChunkTexts # PositionalFragments(input)

\* C5: the returned fragments carry the indices 0..n-1 in emission order, none
\* is empty, a slice that is empty after trimming takes a stride step and no
\* index, and an empty or whitespace-only input yields no fragment.
C5_IndicesDense ==
    /\ \A i \in 1..Len(chunks) : chunks[i].index = i - 1 /\ chunks[i].text # <<>>
    /\ Len(chunks) = Cardinality({k \in 1..Len(slices) : slices[k].frag # <<>>})
    /\ \A k \in 1..(Len(slices) - 1) : slices[k + 1].from = slices[k].from + Stride
    /\ (chunkPc # "idle" /\ Trim(input) = <<>>) => (chunkPc = "done" /\ chunks = <<>>)

C5_Witness ==
    /\ chunkPc = "done"
    /\ Len(chunks) >= 2
    /\ \E k \in 1..(Len(slices) - 1) : slices[k].frag = <<>>
    /\ chunks[Len(chunks)].index = Len(chunks) - 1
----------------------------------------------------------------------------
(* Properties of embedWithOllama *)

\* C8 (as claimed): whatever embedWithOllama returns holds one vector per input
\* text; a response with another number of vectors makes the call fail.
C8_OneVectorPerText ==
    (embedPc = "returned") => Len(embedResult.value) = Len(texts)

\* C9 (as claimed): the requests carry the consecutive batches of at most
\* BATCH_SIZE texts in input order, a returned result holds at position i the
\* vector the provider computed for texts[i], and a failed call returns nothing.
C9_OrderPreserved ==
    /\ \A r \in 1..Len(requests) :
        /\ Len(requests[r]) <= BATCH_SIZE
        /\ requests[r] = SubSeq(texts, (r - 1) * BATCH_SIZE + 1,
                                Min(r * BATCH_SIZE, Len(texts)))
    /\ (embedPc = "returned") =>
            /\ embedResult.has
            /\ \A k \in 1..Len(texts) :
                k <= Len(embedResult.value) /\ embedResult.value[k] = Vec(texts[k])
    /\ (embedPc = "thrown") => (~embedResult.has /\ embedError # "none")
----------------------------------------------------------------------------
(* Properties of the ingestion coordinator *)

RowsOf(tbl, d) == {r \in tbl : r.documentId = d}

EmbeddingsOf(tbl, d) == {e \in tbl : e.chunk.documentId = d}

NoCallInFlight == \A c \in Slots : ingPc[c] \in {"idle", "done"}

\* C1: when a call whose embedding step failed has answered, none of the
\* Chunk rows it inserted and no Embedding row of them is left, and whenever no
\* call is in flight every Chunk row has exactly one Embedding row.
C1_AllOrNothing ==
    /\ \A c \in Slots :
        (ingPc[c] = "done" /\ ingStatus[c] # 200) =>
            /\ chunkRows \cap ingCreated[c] = {}
            /\ \A e \in embeddingRows : e.chunk \notin ingCreated[c]
            /\ chunkRows = ingSnapshot[c].chunks
            /\ embeddingRows = ingSnapshot[c].embeddings
    /\ NoCallInFlight =>
            /\ \A r \in chunkRows :
                Cardinality({e \in embeddingRows : e.chunk = r}) = 1
            /\ \A e \in embeddingRows : e.chunk \in chunkRows

\* An embedding failure at the second batch, after the chunks were inserted.
C1_Witness ==
    \E c \in Slots :
        /\ ingPc[c] = "done"
        /\ ingStatus[c] = 503
        /\ ingRequests[c] = 2
        /\ Cardinality(ingCreated[c]) = BATCH_SIZE + 1
        /\ ingSnapshot[c].chunks # {}

\* C6: the answer is that of the first precondition that fails, in the order
\* invalid id (400), unknown document (404), already ingested (409), no text
\* (422); such a call creates no row, and the first three answer before any
\* text extraction or embedding request.
C6_PreconditionOrder ==
    \A c \in Slots :
        (ingPc[c] = "done") =>
            LET a == ingArg[c]
                known == a \in documents
                dup == AlreadyIngested(ingSnapshot[c].chunks, a)
            IN  /\ (a < 1) <=> (ingStatus[c] = 400)
                /\ (a >= 1 /\ ~known) => (ingStatus[c] = 404)
                /\ (known /\ dup) <=> (ingStatus[c] = 409)
                /\ (known /\ ~dup /\ docFragments[a] = 0) <=> (ingStatus[c] = 422)
                /\ (a < 1 \/ ~known \/ dup) =>
                        (~ingExtracted[c] /\ ingRequests[c] = 0)
                /\ (a < 1 \/ ~known \/ dup \/ docFragments[a] = 0) =>
                        /\ ingCreated[c] = {}
                        /\ ingRequests[c] = 0
                        /\ chunkRows = ingSnapshot[c].chunks
                        /\ embeddingRows = ingSnapshot[c].embeddings

\* A Conflict on an ingested document, answered without extraction.
C6_Witness ==
    \E c \in Slots :
        /\ ingPc[c] = "done"
        /\ ingStatus[c] = 409
        /\ ~ingExtracted[c]
        /\ \E d \in Docs : docFragments[d] = 0

\* C7: a call on a document an earlier call has ingested answers 409 and
\* leaves the Chunk and Embedding rows of every document as they were.
C7_SecondIngestConflicts ==
    \A c \in Slots :
        (ingPc[c] = "done" /\ ingWasOk[c]) =>
            /\ ingStatus[c] = 409
            /\ \A d \in Docs :
                /\ Cardinality(RowsOf(chunkRows, d))
                       = Cardinality(RowsOf(ingSnapshot[c].chunks, d))
                /\ Cardinality(EmbeddingsOf(embeddingRows, d))
                       = Cardinality(EmbeddingsOf(ingSnapshot[c].embeddings, d))
                /\ RowsOf(chunkRows, d) = RowsOf(ingSnapshot[c].chunks, d)

C7_Witness ==
    \E c \in Slots :
        /\ ingPc[c] = "done"
        /\ ingWasOk[c]
        /\ ingStatus[c] = 409
        /\ Cardinality(RowsOf(chunkRows, ingArg[c])) = BATCH_SIZE + 1
        /\ Cardinality(EmbeddingsOf(embeddingRows, ingArg[c])) = BATCH_SIZE + 1
----------------------------------------------------------------------------
(* Properties of the query route *)

CandidateIds == [k \in 1..Len(vectorRows) |-> vectorRows[k].id]

\* C10 (as claimed): the candidates handed to the dense rerank are the hits of
\* the full-text prefilter, in its order; the most recent
\* MAX_EMBEDDINGS_SEARCH embeddings are the candidates only when the index is
\* unavailable or returns nothing; and there are never more candidates than
\* max(PREFILTER_LIMIT, MAX_EMBEDDINGS_SEARCH).
C10_CandidatesFromPrefilter ==
    (queryPc = "rank") =>
        /\ (ftsAvailable /\ ftsHits # <<>>) => CandidateIds = ftsHits
        /\ ~(ftsAvailable /\ ftsHits # <<>>) =>
                /\ Len(embeddings) <= MAX_EMBEDDINGS_SEARCH
                /\ \A e \in embeddingRows :
                        (\E k \in 1..Len(embeddings) : embeddings[k] = e)
                            \/ \A k \in 1..Len(embeddings) :
                                    embeddings[k].createdAt > e.createdAt
        /\ Len(vectorRows) <= Max(PREFILTER_LIMIT, MAX_EMBEDDINGS_SEARCH)
\* the context assembler has run on a non-empty ranked list
ContextWasBuilt ==
    /\ queryPc \in {"prompt", "generate", "llm", "done"}
    /\ chosen # <<>>

\* C18: when maxChars is smaller than the first ranked fragment, the context
\* and the sources are empty and the query ends with 422, without a prompt
\* and without a call of the language model.
C18_NoUsableContext ==
    (ContextWasBuilt /\ Len(chosen[1].item.text) > MAX_CONTEXT_CHARS) =>
        /\ context = <<>>
        /\ sources = <<>>
        /\ queryPc = "done"
        /\ queryStatus = 422
        /\ ~prompt.has
        /\ llmCalls = 0
        /\ genState = "Idle"
        /\ ~answer.has

C18_Witness ==
    /\ ContextWasBuilt
    /\ Len(chosen[1].item.text) > MAX_CONTEXT_CHARS
    /\ Len(chosen) = TOP_K
    /\ queryStatus = 422

GenTerminal == {"Completed", "Cancelled", "Failed"}

GenTransitions ==
    {<<"Idle", "Prompting">>, <<"Prompting", "Streaming">>} \cup
        {<<"Streaming", t>> : t \in GenTerminal}

\* C19: a generation goes Idle -> Prompting -> Streaming and then reaches one
\* of Completed, Cancelled, Failed, which it never leaves; the language model
\* is invoked only after the prompt has been built; and the request gets
\* exactly one response, an answer or an error.
C19_GenerationLifecycle ==
    /\ [][genState' # genState => <<genState, genState'>> \in GenTransitions]_vars
    /\ [][llmCalls' # llmCalls =>
            prompt.has /\ genState = "Prompting" /\ genState' = "Streaming"]_vars
    /\ [][queryStatus # 0 =>
            queryStatus' = queryStatus /\ answer' = answer /\ response' = response]_vars
    /\ [](genState \in GenTerminal =>
            /\ queryPc = "done"
            /\ llmCalls = 1
            /\ queryStatus # 0
            /\ (genState = "Completed") <=> (queryStatus = 200)
            /\ answer.has <=> (queryStatus = 200)
            /\ (response.error = "none") <=> (queryStatus = 200))
    /\ [](genState \in {"Prompting", "Streaming"} => queryStatus = 0 /\ ~answer.has)
    /\ (genState = "Prompting") ~> (genState \in GenTerminal)

\* a generation that the timer ended
C19_Witness ==
    /\ genState = "Failed"
    /\ response.error = "timeout"
    /\ queryStatus = 500
    /\ llmCalls = 1
    /\ prompt.has

----------------------------------------------------------------------------
(* Properties of cosine and rankByCosine *)

\* C11 (as claimed): the similarity rankByCosine attaches to a candidate is
\* cosine(query, candidate.vector): dot/(norm*norm), and exactly 0 when the
\* candidate's vector length differs from the query's or a norm is zero.
C11_RankSimilarityIsCosine ==
    (rankPc # "idle") =>
        \A k \in 1..Len(results) :
            results[k].similarity = cosine(query, results[k].item.vector)

SqNorm(v) == DotProduct(v, v, Len(v))

\* C12: cosine(a, b) is 0 when the lengths differ, when both vectors are
\* empty and when a norm is zero; otherwise it is dot(a,b)/(norm(a)*norm(b));
\* and cosine(a, b) = cosine(b, a).
C12_CosineTotalAndSymmetric ==
    (cosPc = "returned") =>
        /\ (Len(cosA) # Len(cosB) \/ SqNorm(cosA) = 0 \/ SqNorm(cosB) = 0)
                => cosOut = Zero
        /\ (Len(cosA) = Len(cosB) /\ SqNorm(cosA) # 0 /\ SqNorm(cosB) # 0) =>
                /\ cosOut.s = Sign(DotProduct(cosA, cosB, Len(cosA)))
                /\ cosOut.n * SqNorm(cosA) * SqNorm(cosB)
                        = cosOut.d * DotProduct(cosA, cosB, Len(cosA))
                                   * DotProduct(cosA, cosB, Len(cosA))
                /\ cosOut.d > 0
        /\ cosOut = cosine(cosB, cosA)

\* a call with vectors of different lengths whose common prefix is not
\* orthogonal
C12_Witness ==
    /\ cosPc = "returned"
    /\ Len(cosA) # Len(cosB)
    /\ CosineOverPrefix(cosA, cosB) # Zero
    /\ cosOut = Zero
OutIds == {rankOut[k].item.id : k \in 1..Len(rankOut)}

\* C13 (as claimed): for every topK, rankByCosine returns at most topK results
\* (none when topK is negative, as a count cannot be), exactly min(topK, n)
\* when topK >= 0; every result is an input candidate
\* with a similarity added; no candidate appears twice; the input list is
\* not modified.
C13_AtMostTopK ==
    (rankPc = "returned") =>
        /\ Len(rankOut) <= Max(topK, 0)
        /\ (topK >= 0) => Len(rankOut) = Min(topK, Len(vectorsArg))
        /\ \A k \in 1..Len(rankOut) :
                \E i \in 1..Len(vectorsArg) : rankOut[k].item = vectorsArg[i]
        /\ Cardinality(OutIds) = Len(rankOut)
        /\ vectors = vectorsArg

SameSimilarity(x, y) == ~Less(x, y) /\ ~Less(y, x)

\* the similarity the call gave to candidate number i of its input
GivenSimilarity(i) == ItemSimilarity(query, vectorsArg[i].vector)

\* C14: the result of rankByCosine is the first topK elements (topK >= 0) of
\* the stable descending ordering of the scored candidates: similarities are
\* non-increasing along the result, candidates of equal similarity keep their
\* input order, and no omitted candidate has a higher similarity than a
\* returned one, nor an equal similarity and an earlier input position.
C14_StableDescendingPrefix ==
    (rankPc = "returned") =>
        /\ \A k \in 1..Len(rankOut) :
                /\ rankOut[k].item.id \in 1..Len(vectorsArg)
                /\ rankOut[k].item = vectorsArg[rankOut[k].item.id]
                /\ rankOut[k].similarity = GivenSimilarity(rankOut[k].item.id)
        /\ \A i, j \in 1..Len(rankOut) :
                i < j =>
                    /\ ~Less(rankOut[i].similarity, rankOut[j].similarity)
                    /\ SameSimilarity(rankOut[i].similarity, rankOut[j].similarity)
                            => rankOut[i].item.id < rankOut[j].item.id
        /\ \A c \in (1..Len(vectorsArg)) \ OutIds :
                \A k \in 1..Len(rankOut) :
                    /\ ~Less(rankOut[k].similarity, GivenSimilarity(c))
                    /\ SameSimilarity(rankOut[k].similarity, GivenSimilarity(c))
                            => rankOut[k].item.id < c
        /\ (topK >= 0) => Len(rankOut) = Min(topK, Len(vectorsArg))

\* similarities high, low, middle with topK = 2: the result is the first and
\* the third candidate
C14_Witness ==
    /\ rankPc = "returned"
    /\ topK = 2
    /\ Len(vectorsArg) = 3
    /\ Less(GivenSimilarity(2), GivenSimilarity(3))
    /\ Less(GivenSimilarity(3), GivenSimilarity(1))
    /\ [k \in 1..Len(rankOut) |-> rankOut[k].item.id] = <<1, 3>>
----------------------------------------------------------------------------
(* Properties of the context assembler *)

RankedFragments == ToFragments(ranked)

\* the texts of the fragments whose positions are in S, concatenated in order
RECURSIVE TextsOf(_, _, _)
TextsOf(frags, S, n) ==
    IF n = 0 THEN <<>>
    ELSE TextsOf(frags, S, n - 1) \o (IF n \in S THEN frags[n].text ELSE <<>>)

\* C15: the context is at most maxChars characters long and is made of whole
\* fragment texts of the ranked list, in rank order, never of a truncated one.
C15_ContextWithinBudget ==
    (ctxPc # "idle") =>
        /\ Len(built.context) <= maxChars
        /\ \E S \in SUBSET (1..Len(ranked)) :
                built.context = TextsOf(RankedFragments, S, Len(ranked))

\* three fragments of 60 characters with maxChars = 100: a context of 60
\* characters and one source
C15_Witness ==
    /\ ctxPc = "built"
    /\ maxChars = 100
    /\ Len(ranked) = 3
    /\ \A k \in 1..3 : Len(ranked[k].item.text) = 60
    /\ Len(built.context) = 60
    /\ Len(built.sources) = 1

\* the number of fragments before the first one that does not fit
RECURSIVE GreedyCount(_, _, _)
GreedyCount(frags, budget, n) ==
    IF n = 0 THEN 0
    ELSE LET before == GreedyCount(frags, budget, n - 1)
         IN  IF before = n - 1
                /\ Len(TextsOf(frags, 1..n, n)) <= budget
             THEN n ELSE before

Included == GreedyCount(RankedFragments, maxChars, Len(ranked))

\* C16: the included fragments are exactly a prefix of the ranked list, ended
\* by the first fragment whose addition would exceed maxChars, even if a
\* later fragment alone would fit; the sources cite only included fragments.
C16_GreedyPrefix ==
    (ctxPc # "idle") =>
        /\ built.taken = 1..Included
        /\ built.context = TextsOf(RankedFragments, 1..Included, Len(ranked))
        /\ \A k \in 1..Len(built.sources) :
                \E i \in 1..Included :
                    /\ RankedFragments[i].filename = built.sources[k].filename
                    /\ RankedFragments[i].chunkIndex = built.sources[k].chunkIndex

\* a fragment is dropped although it would fit alone after the included ones
C16_Witness ==
    /\ ctxPc = "built"
    /\ Included >= 1
    /\ \E j \in (Included + 2)..Len(ranked) :
            Len(built.context) + Len(ranked[j].item.text) <= maxChars
    /\ built.taken = 1..Included

\* first occurrences of the elements of a sequence, in order
RECURSIVE Distinct(_)
Distinct(q) ==
    IF q = <<>> THEN <<>>
    ELSE LET front == Distinct(SubSeq(q, 1, Len(q) - 1))
         IN  IF \E k \in 1..Len(front) : front[k] = q[Len(q)]
             THEN front ELSE Append(front, q[Len(q)])

\* C17 (as claimed): the citations are deduplicated by (document, fragment
\* index): no two citations have the same key, there is one citation for
\* every distinct key among the included fragments, in first-occurrence
\* order, and fragments with the same index of different documents are both
\* cited.
C17_CitationsByDocument ==
    (ctxPc = "cited") =>
        [k \in 1..Len(cited) |-> <<cited[k].documentId, cited[k].chunkIndex>>]
            = Distinct([k \in 1..Included |->
                            <<ranked[k].item.docId, ranked[k].item.chunkIndex>>])

----------------------------------------------------------------------------
(* Properties of the streaming generation *)

\* C20: the cancellation is observed between increments: once the signal is
\* set no increment is appended, the generation becomes Cancelled and stays
\* so, and the text accumulated up to then is persisted as the final answer,
\* after any number of increments, zero included.
C20_CancelKeepsPartialAnswer ==
    /\ [][(cancelSignal /\ streamState \in {"Streaming", "Cancelled"})
                => accumulated' = accumulated]_vars
    /\ [][streamState' # streamState /\ streamState' = "Cancelled"
                => cancelSignal /\ streamState = "Streaming"]_vars
    /\ [][streamState = "Cancelled"
                => streamState' = "Cancelled" /\ persisted' = persisted]_vars
    /\ [](streamState = "Cancelled"
                => persisted.has /\ persisted.value = accumulated)
    /\ (cancelSignal /\ streamState = "Streaming")
            ~> (streamState \in {"Cancelled", "Failed"})

\* a generation cancelled after one increment, with more to come
C20_Witness ==
    /\ streamState = "Cancelled"
    /\ Len(accumulated) = 1
    /\ pending # <<>>
    /\ persisted = Returned(accumulated)

----------------------------------------------------------------------------
(* Properties of the query route: the deadline, the errors, the validation *)

\* what the route has answered and what a client can observe of the generation
Outcome == <<queryPc, queryStatus, answer, response, genState>>

\* C21: the 90-second timer and generateWithOllama race and the first to
\* settle wins.  If the timer expires first the request ends Failed with the
\* timeout error (status 500) and without an answer, and the later result
\* of the language model changes nothing; if the language model settles
\* first the request ends with its result, and the later expiry of the
\* timer changes nothing.
C21_DeadlineRace ==
    /\ [][(llmPromise = "pending" /\ timer = "armed" /\ timer' = "expired") =>
            /\ genState' = "Failed"
            /\ queryStatus' = 500
            /\ response'.error = "timeout"
            /\ ~answer'.has]_vars
    /\ [][(llmPromise = "pending" /\ timer = "armed" /\ llmPromise' # "pending") =>
            /\ response'.error = IF llmPromise' = "answer" THEN "none" ELSE llmPromise'
            /\ answer'.has <=> (llmPromise' = "answer")
            /\ (genState' = "Completed") <=> (llmPromise' = "answer")]_vars
    /\ [][(timer = "expired" /\ llmPromise = "pending" /\ llmPromise' # "pending") =>
            Outcome' = Outcome]_vars
    /\ [][(llmPromise \notin {"unstarted", "pending"} /\ timer = "armed"
                /\ timer' = "expired") =>
            Outcome' = Outcome]_vars
    /\ [](response.error = "timeout" =>
            genState = "Failed" /\ queryStatus = 500 /\ ~answer.has)

\* the timer won and the language model answered afterwards
C21_Witness ==
    /\ timer = "expired"
    /\ llmPromise = "answer"
    /\ response.error = "timeout"
    /\ genState = "Failed"
    /\ queryStatus = 500
    /\ ~answer.has

\* the provider could not be reached / did not have the model, at either call
ProviderUnreachable == response.error \in {"CannotConnect", "cannotConnect"}

ProviderModelMissing == response.error \in {"ModelNotFound", "notFound"}

\* C22 (as claimed): the query answers 503 whenever the provider is
\* unreachable and 404 whenever the provider's model is missing, at the
\* embedding of the question as well as at the generation of the answer, and
\* answers neither of the two statuses for any other error.
C22_ProviderErrorStatus ==
    (queryPc = "done") =>
        /\ ProviderUnreachable => queryStatus = 503
        /\ ProviderModelMissing => queryStatus = 404
        /\ ~(ProviderUnreachable \/ ProviderModelMissing) => queryStatus \notin {503, 404}

\* a question that is missing, not a string, empty or made of whitespace only
Unusable(q) == q.type # "string" \/ \A i \in 1..Len(q.chars) : q.chars[i] = Ws

\* C23: a missing, non-string, empty or whitespace-only question is answered
\* 400 before any read of the database and any provider call (and only such
\* a question is); with a usable question and no Chunk row the answer is
\* 422 after the one count and before the question is embedded; neither
\* rejection calls the embedding or the language-model provider.
C23_RejectedBeforeAnyCall ==
    /\ (queryPc # "idle" /\ Unusable(question)) =>
            /\ queryPc = "done"
            /\ queryStatus = 400
            /\ dbReads = 0
            /\ embedCalls = 0
            /\ llmCalls = 0
    /\ (queryStatus = 400) => Unusable(question)
    /\ (queryPc = "done" /\ ~Unusable(question) /\ chunkRows = {}) =>
            /\ queryStatus = 422
            /\ dbReads = 1
            /\ embedCalls = 0
            /\ llmCalls = 0

\* a whitespace-only question has been rejected
C23_Witness ==
    /\ question.type = "string"
    /\ Len(question.chars) = 2
    /\ queryStatus = 400
    /\ queryPc = "done"

\* whether the context holds text of fragment i of document d
InContext(d, i) == \E p \in 1..Len(context) : context[p] = <<d, i>>

\* C24 (as claimed): on a successful query every returned source carries the
\* identifier of a Document that owns a fragment of the context with the
\* source's filename and chunkIndex (never 0, never the id of a document
\* without such a fragment), also when fragments of two documents share
\* filename and chunkIndex; there are at most used.k sources; and used.k is
\* at most TOP_K.
C24_SourcesCarryDocumentId ==
    (queryStatus = 200) =>
        /\ \A j \in 1..Len(response.sources) :
                /\ response.sources[j].documentId # 0
                /\ \E i \in 1..Len(chosen) :
                        /\ chosen[i].item.docId = response.sources[j].documentId
                        /\ chosen[i].item.filename = response.sources[j].filename
                        /\ chosen[i].item.chunkIndex = response.sources[j].chunkIndex
                        /\ docFilename[chosen[i].item.docId] = response.sources[j].filename
                        /\ InContext(chosen[i].item.docId, chosen[i].item.chunkIndex)
        /\ Len(response.sources) <= response.k
        /\ response.k <= TOP_K

----------------------------------------------------------------------------
(* Properties of the deletion of a conversation *)

\* C25: after a DELETE has answered success no Document row of the
\* conversation remains, nor any Chunk row or Embedding row of such a
\* document; and at no point is there an Embedding row whose Chunk row is
\* gone or a Chunk row whose Document row is gone.
C25_DestroyedWithDocument ==
    /\ (delStatus = 200) =>
            /\ delBelonged \cap documents = {}
            /\ \A c \in chunkRows : c.documentId \notin delBelonged
            /\ \A e \in embeddingRows : e.chunk.documentId \notin delBelonged
            /\ \A d \in documents : docConversation[d] # delArg
    /\ \A e \in embeddingRows : e.chunk \in chunkRows
    /\ \A c \in chunkRows : c.documentId \in documents

\* a conversation with an ingested document has been deleted, and other
\* documents keep their rows
C25_Witness ==
    /\ delStatus = 200
    /\ \E d \in delBelonged : docFragments[d] > 0
    /\ chunkRows # {}
    /\ embeddingRows # {}

\* whether the absolute path p lies inside the directory dir
Inside(p, dir) == StartsWith(p, dir \o <<"/">>)

\* C27 (as claimed): the deletion removes a file from disk only if its
\* resolved path lies inside the upload directory: a path that resolves
\* outside of it, also one in a sibling directory whose name begins with
\* the upload directory's name, is skipped; and a file that is missing
\* already does not make the deletion fail.
C27_OnlyFilesOfUploadDir ==
    /\ \A p \in unlinked : Inside(p, resolveFilePath(envUploadDir))
    /\ (delPc = "files" \/ (delPc = "done" /\ fileIndex > 1)) =>
            delStatus \in {0, 200}
    /\ (delPc = "done" /\ delStatus = 200) => fileIndex = Len(filePaths) + 1

----------------------------------------------------------------------------
(* Properties of a query that runs while a conversation is deleted *)

\* C26 (as claimed): whatever the interleaving of the query with a deletion,
\* the query never observes a fragment of an ingested document without its
\* embedding: the Chunk rows that prisma.chunk.count() counts all have their
\* Embedding row, and every Embedding row that findMany returns comes with
\* its Chunk row.
C26_FragmentSeenWithEmbedding ==
    /\ [][(queryPc = "count" /\ queryPc' # "count") =>
            \A c \in chunkRows : \E e \in embeddingRows : e.chunk = c]_vars
    /\ [][(queryPc = "fetch" /\ queryPc' # "fetch") =>
            \A k \in 1..Len(embeddings') : embeddings'[k].chunk \in chunkRows]_vars

----------------------------------------------------------------------------
(* Properties of ingest calls in flight together *)

----------------------------------------------------------------------------
(* Properties of the chat input bar *)

\* The positions (message, place) of the attachments passed to onSend.
SentPlaces == {p \in (1..Len(sent)) \X (1..(MAX_FILES * MaxUploads)) :
                  p[2] <= Len(sent[p[1]].attachments.list)}

SentAt(p) == sent[p[1]].attachments.list[p[2]]

NoAttachmentSentTwice ==
    \A p, q \in SentPlaces : SentAt(p) = SentAt(q) => p = q

ClearedAttachmentsWereSent ==
    \A k \in 1..Len(pendingAttachments) :
        (\A l \in 1..Len(pendingAttachments') :
                pendingAttachments'[l] # pendingAttachments[k])
            => \E p \in SentPlaces' : SentAt(p)' = pendingAttachments[k]

\* C29 (as claimed): whatever the interleaving of the auto-send timers, the
\* manual sends and the uploads, no attachment is passed to onSend twice, and
\* an attachment leaves the pending attachments only when it has been passed
\* to onSend.
C29_EachAttachmentSentOnce ==
    [][NoAttachmentSentTwice' /\ ClearedAttachmentsWereSent]_vars

IsPdf(f) == f.type = "application/pdf"

IsPrefix(s, t) == Len(s) <= Len(t) /\ s = SubSeq(t, 1, Len(s))

\* C30 (as claimed): a call of uploadFiles sends at most MAX_FILES files to
\* the upload route, the PDFs of the selection in their order and no other
\* file; isUploading is false whenever no call is in its loop; and no message
\* sent by the Send button or by Enter was sent while isUploading was true.
C30_UploadsAndNoSendWhileUploading ==
    /\ \A u \in UploadCalls :
        /\ Len(fetched[u]) <= MAX_FILES
        /\ IsPrefix(fetched[u], SelectSeq(upFiles[u], IsPdf))
        /\ upPc[u] = "returned" /\ selected[u] # <<>>
              => fetched[u] = SelectSeq(FirstFiles(upFiles[u]), IsPdf)
    /\ (\A u \in UploadCalls : upPc[u] # "fetch") => ~isUploading
    /\ \A i \in 1..Len(sent) :
            sent[i].path \in {"button", "enter"} => ~sent[i].isUploading

====
